---- MODULE Spec2Model ----
(***************************************************************************)
(* Model of the patch matching, repair and validation engine of            *)
(* LLM4Backport: tools/utils.py (split_patch, revise_patch,                *)
(* find_most_similar_block), tools/project.py (Project._apply_hunk,        *)
(* _apply_file_move_handling, _apply_error_handling, _compile_patch,       *)
(* _run_testcase, _run_poc, _validate) and the driver                      *)
(* agent/invoke_llm.py (do_backport).                                      *)
(*                                                                         *)
(* Text is modelled line by line.  A line of a source file or the body of  *)
(* a hunk is a sequence of one-character strings.  A patch text is a       *)
(* sequence of line records: the kind of a line is what the code tests     *)
(* with startswith / re.findall, its fields are what the code extracts.    *)
(***************************************************************************)
EXTENDS Integers, Sequences, FiniteSets, TLC

(***************************************************************************)
(* Python helpers                                                          *)
(***************************************************************************)

\* float("inf") of utils.py / project.py: larger than every distance of the model
Inf == 100000

Min2(a, b) == IF a <= b THEN a ELSE b

Max2(a, b) == IF a >= b THEN a ELSE b

Abs(x) == IF x < 0 THEN 0 - x ELSE x

\* Let([r \in {e} |-> body]) is body with r standing for the value of e, which is
\* computed once
Let(f) == f[CHOOSE r \in DOMAIN f : TRUE]

\* Python's whitespace characters that occur in the model's text
IsSpace(c) == c \in {" ", "\t"}

\* seq[i] of Python for a list of length Len(s): 0-based, negative indices count
\* from the end, anything else raises IndexError
PyInRange(s, i) == (0 - Len(s)) <= i /\ i < Len(s)

PyAt(s, i) == IF i >= 0 THEN s[i + 1] ELSE s[Len(s) + i + 1]

\* s[a:b] of Python for 0 <= a, with b clamped to the length
PySlice(s, a, b) ==
    LET hi == Min2(b, Len(s))
    IN  IF a >= hi THEN <<>> ELSE SubSeq(s, a + 1, hi)

RECURSIVE LStrip(_)
LStrip(s) == IF s # <<>> /\ IsSpace(Head(s)) THEN LStrip(Tail(s)) ELSE s

RECURSIVE RStrip(_)
RStrip(s) ==
    IF s # <<>> /\ IsSpace(s[Len(s)]) THEN RStrip(SubSeq(s, 1, Len(s) - 1)) ELSE s

\* str.strip()
Strip(s) == LStrip(RStrip(s))

\* re.sub(r"\s+", "", s)
RECURSIVE NoSpace(_)
NoSpace(s) ==
    IF s = <<>> THEN <<>>
    ELSE IF IsSpace(Head(s)) THEN NoSpace(Tail(s))
    ELSE <<Head(s)>> \o NoSpace(Tail(s))

\* "\n".join(lines) for lines that are character sequences
RECURSIVE JoinNL(_)
JoinNL(ls) ==
    IF ls = <<>> THEN <<>>
    ELSE IF Len(ls) = 1 THEN ls[1]
    ELSE ls[1] \o <<"\n">> \o JoinNL(Tail(ls))

\* needle in haystack, for character sequences
IsSubstring(needle, hay) ==
    \E i \in 0..(Len(hay) - Len(needle)) :
        \A k \in 1..Len(needle) : hay[i + k] = needle[k]

(***************************************************************************)
(* Levenshtein.distance: unit-cost edit distance, computed row by row      *)
(***************************************************************************)
RECURSIVE LevRow(_, _, _, _)
LevRow(prev, ca, b, acc) ==
    IF Len(acc) = Len(b) + 1 THEN acc
    ELSE LET j == Len(acc)
             sub == prev[j] + (IF ca = b[j] THEN 0 ELSE 1)
             v == Min2(Min2(prev[j + 1] + 1, acc[j] + 1), sub)
         IN  LevRow(prev, ca, b, Append(acc, v))

RECURSIVE LevRows(_, _, _, _)
LevRows(a, b, i, prev) ==
    IF i > Len(a) THEN prev[Len(b) + 1]
    ELSE Let([row \in {LevRow(prev, a[i], b, <<prev[1] + 1>>)} |-> LevRows(a, b, i + 1, row)])

Levenshtein(a, b) == LevRows(a, b, 1, [j \in 1..(Len(b) + 1) |-> j - 1])

(***************************************************************************)
(* utils.find_most_similar_block                                           *)
(***************************************************************************)

\* the sliding-window pass (lines 84-95): <<best_start_index, min_distance>>
RECURSIVE BestWindow(_, _, _, _, _, _)
BestWindow(pattern, main, p_len, dline_flag, i, best) ==
    IF i > Len(main) - p_len THEN best
    ELSE LET d == Levenshtein(JoinNL(PySlice(main, i, i + p_len)), JoinNL(pattern))
             skip == dline_flag /\ main[i + 1] # <<>>
                        /\ main[i + 1][1] \in {"+", "-"}
             nb == IF d < best[2] /\ ~skip THEN <<i + 1, d>> ELSE best
         IN  BestWindow(pattern, main, p_len, dline_flag, i + 1, nb)

\* the inner loop over j in range(-5, 6) for pattern line i (lines 105-112):
\* <<offset_flag, offset>> after it
RECURSIVE OffsetScan(_, _, _, _, _, _)
OffsetScan(pattern, main, lineno, i, j, st) ==
    IF j > 5 THEN st
    ELSE LET k == lineno - 1 + j
             hit == PyInRange(main, k) /\ Strip(pattern[i + 1]) = Strip(PyAt(main, k))
             ns == IF hit
                   THEN <<TRUE, IF Abs(j - i) < Abs(st[2]) THEN j - i ELSE st[2]>>
                   ELSE st
         IN  OffsetScan(pattern, main, lineno, i, j + 1, ns)

\* the loop over i in range(p_len) (lines 102-115): the corrected start index.
\* pattern[i] raises IndexError when the pattern is shorter than p_len.
RECURSIVE OffsetFix(_, _, _, _, _, _)
OffsetFix(pattern, main, p_len, lineno, i, st) ==
    IF i >= p_len THEN [raised |-> FALSE, start |-> lineno]
    ELSE IF i >= Len(pattern) THEN [raised |-> TRUE, start |-> lineno]
    ELSE IF Len(Strip(pattern[i + 1])) < 3
         THEN OffsetFix(pattern, main, p_len, lineno, i + 1, st)
    ELSE LET ns == OffsetScan(pattern, main, lineno, i, 0 - 5, st)
         IN  IF ns[1] THEN [raised |-> FALSE, start |-> lineno + ns[2]]
             ELSE OffsetFix(pattern, main, p_len, lineno, i + 1, ns)

\* [raised, start, dist]: raised stands for an exception leaving the function
find_most_similar_block(pattern, main, p_len, dline_flag) ==
    LET best == BestWindow(pattern, main, p_len, dline_flag, 0, <<1, Inf>>)
    IN  IF dline_flag
        THEN [raised |-> FALSE, start |-> best[1], dist |-> best[2]]
        ELSE LET fx == OffsetFix(pattern, main, p_len, best[1], 0, <<FALSE, Inf>>)
             IN  [raised |-> fx.raised, start |-> fx.start, dist |-> best[2]]

(***************************************************************************)
(* Patch text.  One record per line of text:                               *)
(*   k = "a"     "--- a/<p>"            k = "null"  "--- /dev/null"        *)
(*   k = "b"     "+++ b/<p>"            k = "at"    "@@ -h1,h2 +h3,h4 @@<sym>(" *)
(*   k = "atbad" a line starting with "@@" that the header regex rejects   *)
(*   k = "l"     any other line, with its characters in t                  *)
(***************************************************************************)
L(t) == [k |-> "l", p |-> <<>>, h |-> <<>>, sym |-> <<>>, t |-> t]

FileA(p) == [k |-> "a", p |-> p, h |-> <<>>, sym |-> <<>>, t |-> <<>>]

FileB(p) == [k |-> "b", p |-> p, h |-> <<>>, sym |-> <<>>, t |-> <<>>]

DevNull == [k |-> "null", p |-> <<>>, h |-> <<>>, sym |-> <<>>, t |-> <<>>]

At(os, oc, ns, nc, sym) ==
    [k |-> "at", p |-> <<>>, h |-> <<os, oc, ns, nc>>, sym |-> sym, t |-> <<>>]

\* line.startswith("--- a/") or line.startswith("--- /dev/null")
IsFileStart(l) == l.k \in {"a", "null"}

\* the first character of the line's text ("" has none)
FirstChar(l) ==
    CASE l.k = "l" -> IF l.t = <<>> THEN "" ELSE l.t[1]
      [] l.k \in {"a", "null"} -> "-"
      [] l.k = "b" -> "+"
      [] OTHER -> "@"

\* line[1:] for a body line
Rest(l) == IF l.k = "l" /\ l.t # <<>> THEN Tail(l.t) ELSE <<>>

\* the text of the line as the edit distance sees it (body lines only matter)
Raw(l) == IF l.k = "l" THEN l.t ELSE <<FirstChar(l)>>

\* line.replace("'s ", "->")
RECURSIVE ReplaceApos(_)
ReplaceApos(s) ==
    IF Len(s) < 3 THEN s
    ELSE IF s[1] = "'" /\ s[2] = "s" /\ s[3] = " "
         THEN <<"-", ">">> \o ReplaceApos(SubSeq(s, 4, Len(s)))
    ELSE <<s[1]>> \o ReplaceApos(Tail(s))

\* os.path.normpath for the shapes the model's paths take: a leading "./" and
\* a doubled separator are removed
RECURSIVE normpath(_)
normpath(p) ==
    IF Len(p) >= 2 /\ p[1] = "." /\ p[2] = "/" THEN normpath(SubSeq(p, 3, Len(p)))
    ELSE IF \E i \in 1..(Len(p) - 1) : p[i] = "/" /\ p[i + 1] = "/"
         THEN LET i == CHOOSE i \in 1..(Len(p) - 1) : p[i] = "/" /\ p[i + 1] = "/"
              IN  normpath(SubSeq(p, 1, i) \o SubSeq(p, i + 2, Len(p)))
    ELSE p

\* path.split("/")[-1]
RECURSIVE basename(_)
basename(p) ==
    IF \E i \in 1..Len(p) : p[i] = "/"
    THEN basename(SubSeq(p, (CHOOSE i \in 1..Len(p) : p[i] = "/") + 1, Len(p)))
    ELSE p

(***************************************************************************)
(* utils.extract_context: the texts of the " " and "-" lines               *)
(***************************************************************************)
IsOldSide(l) == FirstChar(l) \in {" ", "-"}

RECURSIVE extract_context(_)
extract_context(lines) ==
    IF lines = <<>> THEN <<>>
    ELSE IF IsOldSide(Head(lines))
         THEN <<Rest(Head(lines))>> \o extract_context(Tail(lines))
    ELSE extract_context(Tail(lines))

(***************************************************************************)
(* utils.revise_patch.revise_hunk                                          *)
(***************************************************************************)

\* lines 169-174: a body line without a "+", "-" or " " prefix becomes context
FixPrefix(l) ==
    IF FirstChar(l) \in {"+", "-", " "} THEN l ELSE L(<<" ">> \o Raw(l))

\* the rewriting with the whitespace test left out: every old-side line takes
\* the text of the file
RECURSIVE RewriteLines_always(_, _, _, _, _, _, _)
RewriteLines_always(tmp, tfl, lineno, force, idx, i, acc) ==
    IF idx > Len(tmp) THEN [raised |-> FALSE, lines |-> acc, i |-> i]
    ELSE LET line == tmp[idx]
         IN  IF IsOldSide(line)
             THEN IF ~PyInRange(tfl, lineno - 1 + i)
                  THEN [raised |-> TRUE, lines |-> acc, i |-> i]
                  ELSE LET new_line == PyAt(tfl, lineno - 1 + i)
                           out == IF force THEN L(<<" ">> \o new_line)
                                  ELSE L(<<FirstChar(line)>> \o new_line)
                       IN  RewriteLines_always(tmp, tfl, lineno, force, idx + 1, i + 1,
                                               Append(acc, out))
             ELSE RewriteLines_always(tmp, tfl, lineno, force, idx + 1, i,
                                      Append(acc, IF line.k = "l"
                                                  THEN L(ReplaceApos(line.t)) ELSE line))

\* lines 184-198: [raised, lines, i]
RECURSIVE RewriteLines(_, _, _, _, _, _, _)
RewriteLines(tmp, tfl, lineno, force, idx, i, acc) ==
    IF idx > Len(tmp) THEN [raised |-> FALSE, lines |-> acc, i |-> i]
    ELSE LET line == tmp[idx]
         IN  IF IsOldSide(line)
             THEN IF ~PyInRange(tfl, lineno - 1 + i)
                  THEN [raised |-> TRUE, lines |-> acc, i |-> i]
                  ELSE LET new_line == PyAt(tfl, lineno - 1 + i)
                           out == IF force THEN L(<<" ">> \o new_line)
                                  ELSE IF NoSpace(Rest(line)) = NoSpace(new_line)
                                       THEN L(<<FirstChar(line)>> \o new_line)
                                  ELSE line
                       IN  RewriteLines(tmp, tfl, lineno, force, idx + 1, i + 1,
                                        Append(acc, out))
             ELSE RewriteLines(tmp, tfl, lineno, force, idx + 1, i,
                               Append(acc, IF line.k = "l"
                                           THEN L(ReplaceApos(line.t)) ELSE line))

\* lines 202-213: every removed line is located again in the rewritten body
RECURSIVE ForceMark(_, _, _, _)
ForceMark(tmp, idx, revised, last_line) ==
    IF idx > Len(tmp) THEN [raised |-> FALSE, lines |-> revised]
    ELSE IF FirstChar(tmp[idx]) # "-" THEN ForceMark(tmp, idx + 1, revised, last_line)
    ELSE Let([dlineno \in {find_most_similar_block(
                  <<Rest(tmp[idx])>>,
                  [n \in 1..(Len(revised) - last_line) |-> Raw(revised[last_line + n])],
                  1, TRUE).start + last_line} |->
                IF dlineno > Len(revised) THEN [raised |-> TRUE, lines |-> revised]
                ELSE ForceMark(tmp, idx + 1,
                               [revised EXCEPT
                                  ![dlineno] = L(<<"-">> \o Rest(revised[dlineno]))],
                               dlineno)])

CountNot(lines, c) == Cardinality({n \in 1..Len(lines) : FirstChar(lines[n]) # c})

\* the header as it came, without counting the lines again
ReviseHeader_keeps_counts(head, revised) ==
    At(head.h[1], head.h[2], head.h[3], head.h[4], head.sym)

\* lines 220-232: the header is written with recounted line numbers
ReviseHeader(head, revised) ==
    At(head.h[1], CountNot(revised, "+"), head.h[3], CountNot(revised, "-"), head.sym)

StartsDiffer_never(head) == FALSE

\* lines 228-229: the flag of a hunk is set when its two start lines differ
StartsDiffer(head) == head.h[1] # head.h[3]

\* [raised, lines, fixed]: the hunk from its "@@" line to its end
revise_hunk(lines, target_file_lines, revise_context) ==
    LET \* lines 215-218: a closing context line is added after a non-context last line
        ForceTail(revised, tfl, lineno, i) ==
            IF revised = <<>> THEN [raised |-> TRUE, lines |-> revised]
            ELSE IF FirstChar(revised[Len(revised)]) = " "
                 THEN [raised |-> FALSE, lines |-> revised]
            ELSE IF ~PyInRange(tfl, lineno - 1 + i) THEN [raised |-> TRUE, lines |-> revised]
            ELSE [raised |-> FALSE,
                  lines |-> Append(revised, L(<<" ">> \o PyAt(tfl, lineno - 1 + i)))]
        cut == IF lines[Len(lines)].k = "l" /\ lines[Len(lines)].t = <<>>
               THEN SubSeq(lines, 1, Len(lines) - 1) ELSE lines
        tmp_lines == [n \in 1..(Len(cut) - 1) |-> FixPrefix(cut[n + 1])]
        bad == [raised |-> TRUE, lines |-> <<>>, fixed |-> FALSE]
    IN  Let([contexts \in {extract_context(tmp_lines)} |->
        Let([blk \in {find_most_similar_block(contexts, target_file_lines, Len(contexts), FALSE)} |->
        Let([rw \in {RewriteLines(tmp_lines, target_file_lines, blk.start, revise_context,
                          1, 0, <<>>)} |->
        Let([fm \in {IF revise_context /\ ~rw.raised
             THEN ForceMark(tmp_lines, 1, rw.lines, 0)
             ELSE [raised |-> rw.raised, lines |-> rw.lines]} |->
        Let([ft \in {IF revise_context /\ ~fm.raised
             THEN ForceTail(fm.lines, target_file_lines, blk.start, rw.i)
             ELSE fm} |->
          IF blk.raised \/ ft.raised \/ lines[1].k # "at" THEN bad
          ELSE [raised |-> FALSE,
                lines |-> <<ReviseHeader(lines[1], ft.lines)>>
                            \o (IF ft.lines = <<>> THEN <<L(<<>>)>> ELSE ft.lines),
                fixed |-> StartsDiffer(lines[1])]])])])])])

(***************************************************************************)
(* utils.revise_patch.revise_block and utils.revise_patch                  *)
(***************************************************************************)

\* the smallest index above i of a line whose kind is in kinds, Len + 1 if none
RECURSIVE NextStart(_, _, _)
NextStart(lines, i, kinds) ==
    IF i + 1 > Len(lines) THEN Len(lines) + 1
    ELSE IF lines[i + 1].k \in kinds THEN i + 1
    ELSE NextStart(lines, i + 1, kinds)

\* lines 270-282: the hunks of a block, each revised against the file
RECURSIVE ReviseHunks(_, _, _, _, _)
ReviseHunks(lines, start, file_content, revise_context, acc) ==
    IF start > Len(lines) THEN acc
    ELSE LET nxt == NextStart(lines, start, {"at", "atbad"})
         IN  Let([r \in {revise_hunk(SubSeq(lines, start, nxt - 1), file_content, revise_context)} |->
                    IF r.raised THEN [raised |-> TRUE, lines |-> <<>>, fixed |-> FALSE]
                    ELSE ReviseHunks(lines, nxt, file_content, revise_context,
                                     [raised |-> FALSE, lines |-> acc.lines \o r.lines,
                                      fixed |-> acc.fixed \/ r.fixed])])

\* [raised, lines, fixed]; tree is the content of the project directory
revise_block(lines, tree, revise_context) ==
    LET \* the text "--- /dev/null" where the code uses it as a path
        NullPath == <<"--- /dev/null">>
    IN
    IF Len(lines) < 2 THEN [raised |-> TRUE, lines |-> <<>>, fixed |-> FALSE]
    ELSE
    LET file_path_a == IF lines[1].k = "a" THEN lines[1].p ELSE NullPath
        fixed_file_path_a == IF lines[1].k = "a" THEN normpath(lines[1].p) ELSE NullPath
        file_path_b == IF lines[2].k = "b" THEN lines[2].p ELSE <<"raw">> \o Raw(lines[2])
        fixed_file_path_b == IF lines[2].k = "b" THEN normpath(lines[2].p)
                             ELSE file_path_b
        block_fixed == file_path_a # fixed_file_path_a \/ file_path_b # fixed_file_path_b
        asserted == \/ (file_path_a = file_path_b /\ fixed_file_path_a = fixed_file_path_b)
                    \/ fixed_file_path_a = NullPath
                    \/ fixed_file_path_b = NullPath
        fixed_lines == <<IF lines[1].k = "a" THEN FileA(fixed_file_path_a) ELSE DevNull,
                         IF lines[2].k = "b" THEN FileB(fixed_file_path_b)
                         ELSE FileB(Raw(lines[2]))>>
    IN  IF ~asserted THEN [raised |-> TRUE, lines |-> <<>>, fixed |-> FALSE]
        ELSE IF fixed_file_path_a \notin DOMAIN tree
             THEN [raised |-> FALSE, lines |-> lines, fixed |-> FALSE]
        ELSE ReviseHunks(lines, NextStart(lines, 2, {"at", "atbad"}),
                         tree[fixed_file_path_a], revise_context,
                         [raised |-> FALSE, lines |-> fixed_lines, fixed |-> block_fixed])

RECURSIVE ReviseBlocks(_, _, _, _, _)
ReviseBlocks(lines, start, tree, revise_context, acc) ==
    IF start > Len(lines) THEN acc
    ELSE LET nxt == NextStart(lines, start, {"a", "null"})
         IN  Let([r \in {revise_block(SubSeq(lines, start, nxt - 1), tree, revise_context)} |->
                    IF r.raised THEN [raised |-> TRUE, lines |-> <<>>, fixed |-> FALSE]
                    ELSE ReviseBlocks(lines, nxt, tree, revise_context,
                                      [raised |-> FALSE, lines |-> acc.lines \o r.lines,
                                       fixed |-> acc.fixed \/ r.fixed])])

\* [text, fixed].  The text is given by its lines: "\n".join(fixed_lines) + "\n"
\* of no line at all is one empty line.
revise_patch(patch, tree, revise_context) ==
    Let([r \in {ReviseBlocks(patch, NextStart(patch, 0, {"a", "null"}), tree, revise_context,
                      [raised |-> FALSE, lines |-> <<>>, fixed |-> FALSE])} |->
           IF r.raised THEN [text |-> patch, fixed |-> FALSE]
           ELSE [text |-> IF r.lines = <<>> THEN <<L(<<>>)>> ELSE r.lines,
                 fixed |-> r.fixed]])

(***************************************************************************)
(* utils.split_patch                                                       *)
(***************************************************************************)

\* any(line.endswith(item) for item in blacklist), for a file header line
Blacklisted(l) ==
    LET EndsWith(s, suf) ==
            Len(suf) <= Len(s) /\ SubSeq(s, Len(s) - Len(suf) + 1, Len(s)) = suf
        \* utils.blacklist, each entry by its characters
        blacklist ==
            { <<".", "r", "s", "t">>, <<".", "y", "a", "m", "l">>, <<".", "y", "m", "l">>,
              <<".", "m", "d">>, <<".", "t", "c", "l">>, <<"C", "H", "A", "N", "G", "E", "S">>,
              <<"A", "N", "N", "O", "U", "N", "C", "E">>, <<"N", "E", "W", "S">>,
              <<".", "p", "e", "m">>, <<".", "j", "s">>, <<".", "s", "h", "a", "1">>,
              <<".", "s", "h", "a", "2", "5", "6">>, <<".", "u", "u", "i", "d">>,
              <<".", "t", "e", "s", "t">>, <<"m", "a", "n", "i", "f", "e", "s", "t">>,
              <<".", "x", "m", "l">>, <<"_", "t", "e", "s", "t", ".", "g", "o">>,
              <<".", "j", "s", "o", "n">>, <<".", "g", "o", "l", "d", "e", "n">>,
              <<".", "t", "x", "t">>, <<".", "m", "d", "x">> }
    IN
    \E item \in blacklist : EndsWith(IF l.k \in {"a", "b"} THEN l.p ELSE Raw(l), item)

\* split_block (lines 329-353): [raised, units]
RECURSIVE SplitHunks(_, _, _)
SplitHunks(lines, start, acc) ==
    IF start > Len(lines) THEN acc
    ELSE LET nxt == NextStart(lines, start, {"at", "atbad"})
         IN  SplitHunks(lines, nxt,
                        Append(acc, <<lines[1], lines[2]>> \o SubSeq(lines, start, nxt - 1)))

split_block(lines) ==
    IF Len(lines) < 2 THEN [raised |-> TRUE, units |-> <<>>]
    ELSE [raised |-> FALSE,
          units |-> SplitHunks(lines, NextStart(lines, 2, {"at", "atbad"}), <<>>)]

\* message + x: the message has no newline after its last line, so that line
\* and the unit's first line are one line of the result
Prefixed(message, unit) ==
    IF message = <<>> THEN unit
    ELSE LET last == message[Len(message)]
         IN  SubSeq(message, 1, Len(message) - 1)
               \o (IF Raw(last) = <<>> THEN <<unit[1]>>
                   ELSE <<L(Raw(last) \o <<"-", "-", "-", " ">> \o unit[1].p)>>)
               \o Tail(unit)

PrefixAll(message, units) == [n \in 1..Len(units) |-> Prefixed(message, units[n])]

\* the loop of lines 359-393, then lines 394-396: [raised, units].  An
\* exception ends the generator; the units yielded before it stay yielded.
RECURSIVE SplitLoop(_, _, _, _, _, _)
SplitLoop(lines, flag_commit, line_no, last_line, message, acc) ==
    LET \* lines[a:b] of Python, a >= 0, b possibly negative
        PySliceNeg(s, a, b) == PySlice(s, a, IF b < 0 THEN Max2(Len(s) + b, 0) ELSE b)
    IN
    IF line_no >= Len(lines)
    THEN IF last_line >= 0
         THEN LET b == split_block(PySlice(lines, last_line, Len(lines)))
              IN  [raised |-> b.raised, units |-> acc \o PrefixAll(message, b.units)]
         ELSE [raised |-> FALSE, units |-> acc]
    ELSE
    LET l == lines[line_no + 1]
        back == IF l.k = "a" THEN 2 ELSE 3
        b == IF last_line >= 0
             THEN split_block(IF flag_commit
                              THEN PySliceNeg(lines, last_line, line_no - back)
                              ELSE PySlice(lines, last_line, line_no))
             ELSE [raised |-> FALSE, units |-> <<>>]
        acc2 == acc \o PrefixAll(message, b.units)
        msg2 == IF last_line = -1 /\ flag_commit
                THEN PySlice(lines, 0, Max2(line_no - back, 0)) ELSE message
    IN  IF ~IsFileStart(l)
        THEN SplitLoop(lines, flag_commit, line_no + 1, last_line, message, acc)
        ELSE IF b.raised THEN [raised |-> TRUE, units |-> acc2]
        ELSE IF l.k = "null" /\ line_no + 1 >= Len(lines)
             THEN [raised |-> TRUE, units |-> acc2]
        ELSE LET named == IF l.k = "a" THEN l ELSE lines[line_no + 2]
             IN  SplitLoop(lines, flag_commit, line_no + 1,
                           IF Blacklisted(named) THEN -2 ELSE line_no, msg2, acc2)

split_patch(patch, flag_commit) == SplitLoop(patch, flag_commit, 0, -1, <<>>, <<>>)

(***************************************************************************)
(* The repository and git, as Project uses them (GitPython's repo.git).    *)
(* A tree maps the paths of the existing files to their lines.  The error  *)
(* classes are the ones _apply_hunk tells apart in stderr: "nofile"        *)
(* ("No such file"), "corrupt" ("corrupt patch") and "other".              *)
(***************************************************************************)

\* git reset --hard: tracked files get the content of the ref again, files
\* the ref does not know stay as they are
GitResetHard(tree, ref_tree) ==
    [q \in (DOMAIN ref_tree) \cup (DOMAIN tree) |->
        IF q \in DOMAIN ref_tree THEN ref_tree[q] ELSE tree[q]]

\* git clean -fdx: the files the ref does not know are removed
GitClean(tree, ref_tree) == [q \in (DOMAIN tree) \cap (DOMAIN ref_tree) |-> tree[q]]

\* git apply reads the body of a hunk until both counts of its header are used
\* up: [ok, olds, news]
RECURSIVE ParseBody(_, _, _, _, _, _)
ParseBody(body, idx, o, n, olds, news) ==
    IF o = 0 /\ n = 0 THEN [ok |-> TRUE, olds |-> olds, news |-> news]
    ELSE IF idx > Len(body) \/ o < 0 \/ n < 0
         THEN [ok |-> FALSE, olds |-> olds, news |-> news]
    ELSE LET c == FirstChar(body[idx])
             t == Rest(body[idx])
         IN  CASE c \in {" ", ""} ->
                    ParseBody(body, idx + 1, o - 1, n - 1, Append(olds, t), Append(news, t))
               [] c = "-" /\ body[idx].k = "l" ->
                    ParseBody(body, idx + 1, o - 1, n, Append(olds, t), news)
               [] c = "+" /\ body[idx].k = "l" ->
                    ParseBody(body, idx + 1, o, n - 1, olds, Append(news, t))
               [] OTHER -> [ok |-> FALSE, olds |-> olds, news |-> news]

\* one hunk of one file block: [res, tree]
GitApplyHunk(tree, a, b, hunk) ==
    LET \* where the old side of a hunk is found in the file: the match nearest to
        \* the line the header names, 0-based, or -1
        MatchPos(file, olds, os) ==
            LET cand == {q \in 0..(Len(file) - Len(olds)) :
                            \A n \in 1..Len(olds) : file[q + n] = olds[n]}
                want == Max2(os - 1, 0)
            IN  IF cand = {} THEN -1
                ELSE CHOOSE q \in cand :
                        \A r \in cand : \/ Abs(q - want) < Abs(r - want)
                                        \/ (Abs(q - want) = Abs(r - want) /\ q <= r)
    IN
    Let([pb \in {IF hunk[1].k = "at"
         THEN ParseBody(Tail(hunk), 1, hunk[1].h[2], hunk[1].h[4], <<>>, <<>>)
         ELSE [ok |-> FALSE, olds |-> <<>>, news |-> <<>>]} |->
           IF ~pb.ok THEN [res |-> "corrupt", tree |-> tree]
           ELSE IF a.k = "null"
                THEN IF b.p \in DOMAIN tree THEN [res |-> "other", tree |-> tree]
                     ELSE [res |-> "ok",
                           tree |-> [q \in (DOMAIN tree) \cup {b.p} |->
                                        IF q = b.p THEN pb.news ELSE tree[q]]]
           ELSE IF a.p \notin DOMAIN tree THEN [res |-> "nofile", tree |-> tree]
           ELSE LET file == tree[a.p]
                    at == MatchPos(file, pb.olds, hunk[1].h[1])
                IN  IF at < 0 THEN [res |-> "other", tree |-> tree]
                    ELSE [res |-> "ok",
                          tree |-> [tree EXCEPT ![a.p] =
                                       SubSeq(file, 1, at) \o pb.news
                                         \o SubSeq(file, at + Len(pb.olds) + 1,
                                                   Len(file))]]])

RECURSIVE GitApplyHunks(_, _, _, _, _)
GitApplyHunks(tree, a, b, lines, start) ==
    IF start > Len(lines) THEN [res |-> "ok", tree |-> tree]
    ELSE LET nxt == NextStart(lines, start, {"at", "atbad"})
         IN  Let([r \in {GitApplyHunk(tree, a, b, SubSeq(lines, start, nxt - 1))} |->
                    IF r.res # "ok" THEN r ELSE GitApplyHunks(r.tree, a, b, lines, nxt)])

RECURSIVE GitApplyBlocks(_, _, _)
GitApplyBlocks(tree, lines, start) ==
    IF start > Len(lines) THEN [res |-> "ok", tree |-> tree]
    ELSE LET nxt == NextStart(lines, start, {"a", "null"})
             blk == SubSeq(lines, start, nxt - 1)
             first == NextStart(blk, 2, {"at", "atbad"})
         IN  Let([r \in {IF Len(blk) < 3 \/ blk[2].k # "b" \/ first > Len(blk)
                  THEN [res |-> "other", tree |-> tree]
                  ELSE GitApplyHunks(tree, blk[1], blk[2], blk, first)} |->
                    IF r.res # "ok" THEN r ELSE GitApplyBlocks(r.tree, lines, nxt)])

\* git apply <file>: all of the text or nothing of it is applied
GitApply(tree, text) ==
    Let([r \in {IF NextStart(text, 0, {"a", "null"}) > Len(text)
         THEN [res |-> "other", tree |-> tree]
         ELSE GitApplyBlocks(tree, text, NextStart(text, 0, {"a", "null"}))} |->
           IF r.res = "ok" THEN r ELSE [res |-> r.res, tree |-> tree]])

(***************************************************************************)
(* The job: the target release, what rename detection and ctags report,    *)
(* and the order in which os.walk lists the project directory              *)
(***************************************************************************)
SrcA == <<"a", "a", "a">>
SrcB == <<"b", "b", "b">>
SrcC == <<"c", "c", "c">>
SrcD == <<"d", "d", "d">>
SrcE == <<"e", "e", "e">>
SrcF == <<"f", "f", "f">>
SrcG == <<"g", "g", "g">>
SrcH == <<"h", "h", "h">>
SrcI == <<"i", "i", "i">>
SrcX == <<"x", "x", "x">>
SrcY == <<"y", "y", "y">>

PathF == <<"f", ".", "c">>
PathS == <<"s", ".", "c">>
PathDM == <<"d", "/", "m", ".", "c">>
PathM == <<"m", ".", "c">>
PathG == <<"g", ".", "c">>
PathN == <<"n", ".", "c">>
PathT == <<"t", ".", "c">>

\* the files of data.target_release
RefTree ==
    LET \* a line of source text that happens to hold the word the adapter looks for
        SrcOk == <<"s", "u", "c", "c", "e", "s", "s", "f", "u", "l", "l", "y">>
    IN
    (PathF :> <<SrcA, SrcB, SrcC, SrcD, SrcE, SrcF>>)
      @@ (PathS :> <<SrcF, SrcA>>)
      @@ (PathT :> <<SrcOk>>)
      @@ (PathDM :> <<SrcG, SrcH, SrcI>>)

\* content.split("\n") of a file of the ref: the text ends with a newline, so
\* the list ends with an empty string
RefLines(path) == Append(RefTree[path], <<>>)

\* git diff --diff-filter=R --name-status target_release new_patch_parent -- path:
\* the path the file has in the target release, <<>> when no rename is reported
RenamedFrom(path) == IF path = PathM THEN PathDM ELSE <<>>

SymFn == <<"f", "n">>

\* Project.symbol_map[ref] as ctags fills it: symbol -> <<file, line>> list
SymbolMap == (SymFn :> <<<<PathDM, 1>>>>)

(***************************************************************************)
(* utils.find_most_similar_files                                           *)
(***************************************************************************)
top_n == 5

\* similarity_list.sort(key=distance): stable, so ties keep the walk order
RECURSIVE SortByDistance(_, _)
SortByDistance(target_filename, paths) ==
    IF paths = <<>> THEN <<>>
    ELSE LET d(n) == Levenshtein(target_filename, basename(paths[n]))
             m == CHOOSE n \in 1..Len(paths) :
                     \A r \in 1..Len(paths) : d(n) < d(r) \/ (d(n) = d(r) /\ n <= r)
         IN  <<paths[m]>> \o SortByDistance(target_filename,
                 SubSeq(paths, 1, m - 1) \o SubSeq(paths, m + 1, Len(paths)))

find_most_similar_files(target_filename, tree) ==
    LET \* os.walk(self.dir): the files of a directory before those of its subdirectories
        WalkOrder == <<PathF, PathN, PathS, PathT, PathDM>>
    IN
    PySlice(SortByDistance(target_filename,
                           SelectSeq(WalkOrder, LAMBDA q : q \in DOMAIN tree)),
            0, top_n)

(***************************************************************************)
(* The text a tool call returns: a sequence of items.  An item is one of   *)
(* the fixed messages of project.py, named by lit, with the values that    *)
(* are formatted into it: a number n, paths ps, lines of text ls.          *)
(***************************************************************************)
Item(lit, n, ps, ls) == [lit |-> lit, n |-> n, ps |-> ps, ls |-> ls]

Lit(lit) == Item(lit, -1, <<>>, <<>>)

Successfully == <<"s", "u", "c", "c", "e", "s", "s", "f", "u", "l", "l", "y">>

ContextMismatch ==
    <<"C", "O", "N", "T", "E", "X", "T", " ", "M", "I", "S", "M", "A", "T", "C", "H">>

NeedNotPorted ==
    <<"n", "e", "e", "d", " ", "n", "o", "t", " ", "p", "o", "r", "t", "e", "d">>

\* the fixed messages that contain the marker
LitsWith(marker) ==
    IF marker = Successfully THEN {"APPLIED", "COMPILED", "COMPILE_FAILED", "POC_PASS"}
    ELSE IF marker = ContextMismatch THEN {"MISMATCH"}
    ELSE {}

\* marker in ret
InText(marker, ret) ==
    \E n \in 1..Len(ret) :
        \/ ret[n].lit \in LitsWith(marker)
        \/ \E m \in 1..Len(ret[n].ls) : IsSubstring(marker, ret[n].ls[m])
        \/ \E m \in 1..Len(ret[n].ps) : IsSubstring(marker, ret[n].ps[m])

\* marker in patch, for a patch text
InPatch(marker, patch) ==
    \E n \in 1..Len(patch) :
        IsSubstring(marker, IF patch[n].k \in {"a", "b"} THEN patch[n].p ELSE Raw(patch[n]))

(***************************************************************************)
(* Project._apply_error_handling                                           *)
(***************************************************************************)

\* re.findall(r"--- a/(.*)", text)[0]: the index of the first such line, 0 if none
FirstA(text) ==
    IF \E n \in 1..Len(text) : text[n].k = "a"
    THEN CHOOSE n \in 1..Len(text) : text[n].k = "a" /\ \A m \in 1..(n - 1) : text[m].k # "a"
    ELSE 0

\* lines 314-327: the loop over the similar files: [raised, lineno, path, lines, min]
RECURSIVE SimilarScan(_, _, _, _, _)
SimilarScan(files, idx, contexts, num_context, acc) ==
    LET \* a string used where a list of lines is expected: each character is a line
        CharLines(str) == [n \in 1..Len(str) |-> <<str[n]>>]
    IN
    IF idx > Len(files) THEN acc
    ELSE IF files[idx] \notin DOMAIN RefTree THEN [acc EXCEPT !.raised = TRUE]
    ELSE Let([r \in {find_most_similar_block(CharLines(JoinNL(contexts)), RefLines(files[idx]),
                                      num_context, FALSE)} |->
                IF r.raised THEN [acc EXCEPT !.raised = TRUE]
                ELSE SimilarScan(files, idx + 1, contexts, num_context,
                                 IF r.dist < acc.min
                                 THEN [raised |-> FALSE, lineno |-> r.start,
                                       path |-> files[idx],
                                       lines |-> RefLines(files[idx]), min |-> r.dist]
                                 ELSE acc)])

\* lines 341-348: [raised, ls]: the differing lines, patch text then source text
RECURSIVE DifferLoop(_, _, _, _, _, _)
DifferLoop(revised_patch_line, lines, lineno, i, j, acc) ==
    IF i > Len(revised_patch_line) THEN [raised |-> FALSE, items |-> acc]
    ELSE LET context == revised_patch_line[i]
         IN  IF ~IsOldSide(context)
             THEN DifferLoop(revised_patch_line, lines, lineno, i + 1, j, acc)
             ELSE IF ~PyInRange(lines, lineno - 1 + j)
                  THEN [raised |-> TRUE, items |-> acc]
             ELSE LET src == PyAt(lines, lineno - 1 + j)
                  IN  DifferLoop(revised_patch_line, lines, lineno, i + 1, j + 1,
                                 IF Rest(context) # src
                                 THEN Append(acc, Item("DIFF_LINE", i + 3, <<>>,
                                                       <<Rest(context), src>>))
                                 ELSE acc)

\* [raised, block, differ]; tree is the content of the project directory
apply_error_handling(tree, revised_patch) ==
    LET ai == FirstA(revised_patch)
        path == revised_patch[ai].p
        revised_patch_line == PySlice(revised_patch, 3, Len(revised_patch))
        none == [raised |-> TRUE, block |-> <<>>, differ |-> <<>>]
    IN  IF ai = 0 THEN none
        ELSE
        Let([contexts \in {extract_context(revised_patch_line)} |->
        Let([found \in {IF path \in DOMAIN RefTree
             THEN [raised |-> FALSE,
                   lineno |-> find_most_similar_block(contexts, RefLines(path),
                                                      Len(contexts), FALSE).start,
                   path |-> path, lines |-> RefLines(path), min |-> Inf]
             ELSE SimilarScan(find_most_similar_files(basename(path), tree), 1,
                              contexts, Len(contexts),
                              [raised |-> FALSE, lineno |-> -1, path |-> path,
                               lines |-> <<>>, min |-> Inf])} |->
        Let([d \in {DifferLoop(revised_patch_line, found.lines, found.lineno, 1, 0, <<>>)} |->
          LET startline == Max2(found.lineno - 1, 0)
              endline == Min2(found.lineno + Len(contexts), Len(found.lines))
          IN  IF found.raised \/ d.raised THEN none
              ELSE [raised |-> FALSE,
                    block |-> <<Item("SNIPPET", startline, <<found.path>>,
                                     PySlice(found.lines, startline, endline))>>,
                    differ |-> IF d.items = <<>> THEN <<Lit("NO_DIFFERENCE")>>
                               ELSE d.items \o <<Lit("ELIMINATE_DIFFS")>>]])])])

(***************************************************************************)
(* Project.  A session s holds the fields of the Project object, the       *)
(* content of the project directory (tree) and, for the call in progress,  *)
(* the list ev of what the call did to git and to the stage scripts.       *)
(* A method is an operator from the session to [s, ret, raised]: the       *)
(* session after it, the text it returns, and whether an exception left it.*)
(***************************************************************************)
Log(s, e) == [s EXCEPT !.ev = Append(@, e)]

\* Project._checkout: git reset --hard, git checkout ref
checkout(s) == Log([s EXCEPT !.tree = GitResetHard(@, RefTree)], [e |-> "checkout"])

\* self.repo.git.reset("--hard")
reset_hard(s) == [s EXCEPT !.tree = GitResetHard(@, RefTree)]

\* an apply attempt as the log keeps it: the text given to git apply, whether
\* the directory was exactly the ref's tree before it, and git's answer
ApplyEvent(s, text, res, idx, revise_context) ==
    [e |-> "apply", text |-> text, fresh |-> s.tree = RefTree, res |-> res, idx |-> idx,
     force |-> revise_context]

\* lines 389-412: the candidate paths when rename detection reported nothing
SymbolOrSimilar(s, old_patch, missing_file_path) ==
    LET similar == find_most_similar_files(basename(missing_file_path), s.tree)
        at_line == old_patch[3]
    IN  IF Len(old_patch) < 3 THEN similar
        ELSE IF at_line.k # "at" \/ at_line.sym = <<>> THEN similar
        ELSE IF at_line.sym \notin DOMAIN SymbolMap THEN similar
        ELSE [n \in 1..Len(SymbolMap[at_line.sym]) |-> SymbolMap[at_line.sym][n][1]]

\* lines 367-412
CandidatePaths(s, old_patch, missing_file_path) ==
    IF RenamedFrom(missing_file_path) # <<>> THEN <<RenamedFrom(missing_file_path)>>
    ELSE SymbolOrSimilar(s, old_patch, missing_file_path)

RECURSIVE apply_hunk(_, _, _)
RECURSIVE TryCandidates(_, _, _, _, _, _)

\* lines 414-427: the loop over the candidate paths
TryCandidates(s, old_patch, missing_file_path, file_paths, idx, ret) ==
    LET \* old_patch.replace(missing_file_path, file_path), on the file header lines
        ReplacePath(patch, old, new) ==
            [n \in 1..Len(patch) |->
                IF patch[n].k \in {"a", "b"} /\ patch[n].p = old
                THEN [patch[n] EXCEPT !.p = new] ELSE patch[n]]
    IN
    IF idx > Len(file_paths)
    THEN [s |-> s, raised |-> FALSE,
          ret |-> <<Item("POSSIBLE_PATHS", -1, file_paths, <<>>)>> \o ret]
    ELSE Let([r \in {apply_hunk(s, ReplacePath(old_patch, missing_file_path, file_paths[idx]),
                         FALSE)} |->
           IF r.raised THEN r
           ELSE IF InText(Successfully, r.ret)
                THEN [s |-> r.s, raised |-> FALSE,
                      ret |-> <<Item("MOVED_TO", -1,
                                     <<missing_file_path, file_paths[idx]>>, <<>>)>>]
           ELSE TryCandidates(r.s, old_patch, missing_file_path, file_paths, idx + 1,
                              ret \o r.ret)])

\* Project._apply_file_move_handling
apply_file_move_handling(s, old_patch) ==
    LET ai == FirstA(old_patch)
    IN  IF ai = 0 THEN [s |-> s, raised |-> TRUE, ret |-> <<>>]
        ELSE TryCandidates(s, old_patch, old_patch[ai].p,
                           CandidatePaths(s, old_patch, old_patch[ai].p), 1, <<>>)

\* Project._apply_hunk
apply_hunk(s, patch, revise_context) ==
    Let([s1 \in {reset_hard(checkout(s))} |->
    Let([revised_patch \in {revise_patch(patch, s1.tree, revise_context).text} |->
    Let([g \in {GitApply(s1.tree, revised_patch)} |->
    Let([s2 \in {Log(s1, ApplyEvent(s1, revised_patch, g.res, 0, revise_context))} |->
      CASE g.res = "ok" ->
             [s |-> reset_hard([s2 EXCEPT !.tree = g.tree,
                                          !.succeeded_patches = Append(@, revised_patch),
                                          !.round_succeeded = TRUE]),
              raised |-> FALSE, ret |-> <<Lit("APPLIED")>>]
        [] g.res = "nofile" ->
             Let([fm \in {apply_file_move_handling(s2, revised_patch)} |->
               IF fm.raised THEN fm
               ELSE [s |-> reset_hard(fm.s), raised |-> FALSE, ret |-> fm.ret]])
        [] g.res = "corrupt" ->
             [s |-> reset_hard(s2), raised |-> FALSE, ret |-> <<Lit("CORRUPT")>>]
        [] OTHER ->
             Let([eh \in {apply_error_handling(s2.tree, revised_patch)} |->
               IF eh.raised THEN [s |-> s2, raised |-> TRUE, ret |-> <<>>]
               ELSE [s |-> reset_hard(s2), raised |-> FALSE,
                     ret |-> <<Lit("MISMATCH")>> \o eh.block \o <<Lit("BESIDES")>>
                               \o eh.differ]])])])])])

(***************************************************************************)
(* Project._compile_patch, _run_testcase, _run_poc                         *)
(* What a stage script does is the environment's choice, given as out:     *)
(* "ok", "fail" or "timeout" for build.sh and test.sh; "absent", "present" *)
(* (the error signature in the output) or "timeout" for poc.sh.            *)
(***************************************************************************)

\* a stage method is entered: the flags as the stage finds them
StageEvent(s, stage) ==
    [e |-> "stage", stage |-> stage, compiled |-> s.compile_succeeded,
     tested |-> s.testcase_succeeded, validated |-> s.poc_succeeded]

\* lines 502-525: the hunks of the complete patch, one git apply each, on the
\* same directory: [s, raised, failed, ret]
RECURSIVE ApplyJoined(_, _, _, _)
ApplyJoined(s, pps, idx, revise_context) ==
    IF idx >= Len(pps) THEN [s |-> s, raised |-> FALSE, failed |-> FALSE, ret |-> <<>>]
    ELSE
    Let([revised_patch \in {revise_patch(pps[idx + 1], s.tree, revise_context).text} |->
    Let([g \in {GitApply(s.tree, revised_patch)} |->
    Let([s1 \in {Log(s, ApplyEvent(s, revised_patch, g.res, idx, revise_context))} |->
      IF g.res = "ok"
      THEN ApplyJoined([s1 EXCEPT !.tree = g.tree], pps, idx + 1, revise_context)
      ELSE Let([eh \in {apply_error_handling(s1.tree, revised_patch)} |->
             IF eh.raised
             THEN [s |-> s1, raised |-> TRUE, failed |-> TRUE, ret |-> <<>>]
             ELSE [s |-> reset_hard(s1), raised |-> FALSE, failed |-> TRUE,
                   ret |-> <<Item("APPLY_FAILURE", idx, <<>>, <<>>)>> \o eh.block
                             \o <<Lit("SOURCE_NEAR")>> \o eh.differ
                             \o <<Item("ONLY_HUNK", idx, <<>>, <<>>)>>]])])])])

\* how build.sh and test.sh may end, and what the output of poc.sh may show
ScriptOutcomes == {"ok", "fail", "timeout"}

PocOutcomes == {"absent", "present", "timeout"}

\* the build with a timeout reported like a failure, the process going on
Built_no_exit(s, out) ==
    LET sb == Log(s, [e |-> "spawn", script |-> "build.sh", out |-> out])
    IN  CASE out = "timeout" ->
               [s |-> Log(reset_hard(sb), [e |-> "kill"]),
                raised |-> FALSE, ret |-> <<Lit("COMPILE_TIMEOUT")>>]
          [] out = "fail" ->
               [s |-> reset_hard(sb), raised |-> FALSE, ret |-> <<Lit("COMPILE_FAILED")>>]
          [] OTHER ->
               [s |-> [sb EXCEPT !.compile_succeeded = TRUE], raised |-> FALSE,
                ret |-> <<Lit("COMPILED")>>]

\* lines 554-598: build.sh is run on the patched directory and ends the way out says
Built(s, out) ==
    LET sb == Log(s, [e |-> "spawn", script |-> "build.sh", out |-> out])
    IN  CASE out = "timeout" ->
               [s |-> [Log(Log(reset_hard(sb), [e |-> "kill"]), [e |-> "surface"])
                         EXCEPT !.exited = TRUE],
                raised |-> FALSE, ret |-> <<Lit("COMPILE_TIMEOUT")>>]
          [] out = "fail" ->
               [s |-> reset_hard(sb), raised |-> FALSE, ret |-> <<Lit("COMPILE_FAILED")>>]
          [] OTHER ->
               [s |-> [sb EXCEPT !.compile_succeeded = TRUE], raised |-> FALSE,
                ret |-> <<Lit("COMPILED")>>]

\* _compile_patch without the test for build.sh being there
compile_patch_always_builds(s, complete_patch, revise_context) ==
    Let([ap \in {ApplyJoined(checkout(Log(s, StageEvent(s, "compile"))),
                     split_patch(complete_patch, FALSE).units, 0, revise_context)} |->
      IF ap.raised \/ ap.failed
      THEN {[s |-> ap.s, raised |-> ap.raised, ret |-> ap.ret]}
      ELSE {Built(ap.s, out) : out \in ScriptOutcomes}])

\* Project._compile_patch: the results the call may have, one for each way
\* build.sh may end
compile_patch(s, complete_patch, revise_context) ==
    Let([ap \in {ApplyJoined(checkout(Log(s, StageEvent(s, "compile"))),
                     split_patch(complete_patch, FALSE).units, 0, revise_context)} |->
      IF ap.raised \/ ap.failed
      THEN {[s |-> ap.s, raised |-> ap.raised, ret |-> ap.ret]}
      ELSE IF "build.sh" \notin ap.s.scripts
           THEN {[s |-> [ap.s EXCEPT !.compile_succeeded = TRUE], raised |-> FALSE,
                  ret |-> <<Lit("COMPILED")>>]}
      ELSE {Built(ap.s, out) : out \in ScriptOutcomes}])

\* lines 615-645: test.sh is run and ends the way out says
Tested(s, out) ==
    LET st == Log(s, [e |-> "spawn", script |-> "test.sh", out |-> out])
    IN  CASE out = "timeout" ->
               [s |-> Log(st, [e |-> "kill"]), ret |-> <<Lit("TEST_TIMEOUT")>>]
          [] out = "fail" ->
               [s |-> [st EXCEPT !.compile_succeeded = FALSE],
                ret |-> <<Lit("TEST_FAILED")>>]
          [] OTHER ->
               [s |-> [st EXCEPT !.testcase_succeeded = TRUE],
                ret |-> <<Lit("TEST_PASS")>>]

\* Project._run_testcase: the results the call may have
run_testcase(s) ==
    LET s0 == Log(s, StageEvent(s, "testcase"))
    IN  IF "test.sh" \notin s.scripts
        THEN {[s |-> [s0 EXCEPT !.testcase_succeeded = TRUE], ret |-> <<Lit("TEST_PASS")>>]}
        ELSE {Tested(s0, out) : out \in ScriptOutcomes}

\* lines 664-698: poc.sh is run; out says whether it ends in time and whether
\* its output holds the error signature of the job
PocRun(s, complete_patch, out) ==
    LET sp == Log(s, [e |-> "spawn", script |-> "poc.sh", out |-> out])
    IN  CASE out = "timeout" ->
               [s |-> Log(sp, [e |-> "kill"]), ret |-> <<Lit("TEST_TIMEOUT")>>]
          [] out = "present" ->
               [s |-> [sp EXCEPT !.compile_succeeded = FALSE,
                                 !.testcase_succeeded = FALSE],
                ret |-> <<Lit("POC_FAILED")>>]
          [] OTHER ->
               [s |-> [sp EXCEPT !.succeeded_patches = <<complete_patch>>,
                                 !.poc_succeeded = TRUE],
                ret |-> <<Lit("POC_PASS")>>]

\* _run_poc with the finalised patch appended to the list instead of replacing it
run_poc_appends(s, complete_patch) ==
    LET s0 == Log(s, StageEvent(s, "poc"))
    IN  IF "poc.sh" \notin s.scripts
        THEN {[s |-> [s0 EXCEPT !.poc_succeeded = TRUE,
                               !.succeeded_patches = Append(@, complete_patch)],
               ret |-> <<Lit("POC_PASS")>>]}
        ELSE {[PocRun(s0, complete_patch, out) EXCEPT
                 !.s.succeeded_patches =
                     IF out = "absent" THEN Append(s.succeeded_patches, complete_patch)
                     ELSE @] : out \in PocOutcomes}

\* Project._run_poc: the results the call may have
run_poc(s, complete_patch) ==
    LET s0 == Log(s, StageEvent(s, "poc"))
    IN  IF "poc.sh" \notin s.scripts
        THEN {[s |-> [s0 EXCEPT !.poc_succeeded = TRUE,
                               !.succeeded_patches = <<complete_patch>>],
               ret |-> <<Lit("POC_PASS")>>]}
        ELSE {PocRun(s0, complete_patch, out) : out \in PocOutcomes}

(***************************************************************************)
(* Project._validate                                                       *)
(***************************************************************************)

\* lines 714-718: the compile stage and the count of it; an exception, or the
\* exit of the process, leaves before the count
CompileStage(s, patch) ==
    IF s.compile_succeeded THEN {[s |-> s, raised |-> FALSE, ret |-> <<>>]}
    ELSE {IF c.raised \/ c.s.exited THEN c
          ELSE [c EXCEPT !.s.context_mismatch_times = @ + 1] :
             c \in compile_patch(s, patch, s.context_mismatch_times >= 1)}

\* lines 719-720
TestStage(s) ==
    IF s.compile_succeeded /\ ~s.testcase_succeeded THEN run_testcase(s)
    ELSE {[s |-> s, ret |-> <<>>]}

\* the PoC stage run again after poc_succeeded was set
PocStage_again(s, patch) ==
    IF s.compile_succeeded /\ s.testcase_succeeded
    THEN run_poc(s, patch)
    ELSE {[s |-> s, ret |-> <<>>]}

\* lines 721-726
PocStage(s, patch) ==
    IF s.compile_succeeded /\ s.testcase_succeeded /\ ~s.poc_succeeded
    THEN run_poc(s, patch)
    ELSE {[s |-> s, ret |-> <<>>]}

\* the testcase stage not gated by the compiled flag
TestStageUngated(s) ==
    IF ~s.testcase_succeeded THEN run_testcase(s) ELSE {[s |-> s, ret |-> <<>>]}

\* the whole-patch phase with the testcase stage not gated by the compiled flag
validate_patch_ungated(s, patch) ==
    UNION {IF c.raised \/ c.s.exited THEN {c}
           ELSE UNION {{[s |-> q.s, raised |-> FALSE, ret |-> c.ret \o t.ret \o q.ret] :
                          q \in PocStage(t.s, patch)} :
                       t \in TestStageUngated(c.s)} :
           c \in CompileStage(s, patch)}

\* lines 712-727: the whole-patch phase; the results the call may have
validate_patch(s, patch) ==
    UNION {IF c.raised \/ c.s.exited THEN {c}
           ELSE UNION {{[s |-> q.s, raised |-> FALSE, ret |-> c.ret \o t.ret \o q.ret] :
                          q \in PocStage(t.s, patch)} :
                       t \in TestStage(c.s)} :
           c \in CompileStage(s, patch)}

\* the per-hunk phase with the forced rewrite requested from the first mismatch on
validate_hunk_force_early(s, patch) ==
    IF InPatch(NeedNotPorted, patch)
    THEN [s |-> [s EXCEPT !.round_succeeded = TRUE], raised |-> FALSE,
          ret |-> <<Lit("APPLIED")>>]
    ELSE Let([r \in {apply_hunk(s, patch, s.context_mismatch_times >= 1)} |->
           IF r.raised THEN r
           ELSE [s |-> IF InText(ContextMismatch, r.ret)
                       THEN [r.s EXCEPT !.context_mismatch_times = @ + 1] ELSE r.s,
                 raised |-> FALSE, ret |-> r.ret]])

\* the per-hunk phase with the sentinel text handed to _apply_hunk like any other
validate_hunk_no_sentinel(s, patch) ==
    Let([r \in {apply_hunk(s, patch, s.context_mismatch_times >= 2)} |->
      IF r.raised THEN r
      ELSE [s |-> IF InText(ContextMismatch, r.ret)
                  THEN [r.s EXCEPT !.context_mismatch_times = @ + 1] ELSE r.s,
            raised |-> FALSE, ret |-> r.ret]])

\* the per-hunk phase with every text but the success text counted as a mismatch
validate_hunk_counts_failures(s, patch) ==
    IF InPatch(NeedNotPorted, patch)
    THEN [s |-> [s EXCEPT !.round_succeeded = TRUE], raised |-> FALSE,
          ret |-> <<Lit("APPLIED")>>]
    ELSE Let([r \in {apply_hunk(s, patch, s.context_mismatch_times >= 2)} |->
           IF r.raised THEN r
           ELSE [s |-> IF r.ret # <<Lit("APPLIED")>>
                       THEN [r.s EXCEPT !.context_mismatch_times = @ + 1] ELSE r.s,
                 raised |-> FALSE, ret |-> r.ret]])

\* lines 728-738: the per-hunk phase
validate_hunk(s, patch) ==
    IF InPatch(NeedNotPorted, patch)
    THEN [s |-> [s EXCEPT !.round_succeeded = TRUE], raised |-> FALSE,
          ret |-> <<Lit("APPLIED")>>]
    ELSE Let([r \in {apply_hunk(s, patch, s.context_mismatch_times >= 2)} |->
           IF r.raised THEN r
           ELSE [s |-> IF InText(ContextMismatch, r.ret)
                       THEN [r.s EXCEPT !.context_mismatch_times = @ + 1] ELSE r.s,
                 raised |-> FALSE, ret |-> r.ret]])

\* Project._validate: the results the call may have
validate(s, patch) ==
    IF s.all_hunks_applied_succeeded THEN validate_patch(s, patch)
    ELSE {validate_hunk(s, patch)}

(***************************************************************************)
(* The texts of the model: the upstream commits a job may be given (git    *)
(* show output: message, then per file "diff --git", "index", "--- a/",    *)
(* "+++ b/" and the hunks) and the texts the agent may pass to validate.   *)
(***************************************************************************)
Ctx(t) == L(<<" ">> \o t)

Del(t) == L(<<"-">> \o t)

Add(t) == L(<<"+">> \o t)

MsgLine == L(<<"f", "i", "x">>)

DiffLine == L(<<"d", "i", "f", "f">>)

IndexLine == L(<<"i", "n", "d", "e", "x">>)

ModeLine == L(<<"n", "e", "w">>)

\* f.c: ccc is replaced by xxx; applies to the target release as it is
HunkDirect ==
    <<FileA(PathF), FileB(PathF), At(2, 3, 2, 3, <<>>), Ctx(SrcB), Del(SrcC), Add(SrcX),
      Ctx(SrcD)>>

\* f.c: eee is replaced by yyy, with context the target release does not have
HunkStale ==
    <<FileA(PathF), FileB(PathF), At(4, 3, 4, 3, <<>>), Ctx(SrcI), Del(SrcE), Add(SrcY),
      Ctx(SrcF)>>

\* the same change with the context of the target release, indented differently
HunkFixed ==
    <<FileA(PathF), FileB(PathF), At(9, 3, 9, 3, <<>>), Ctx(<<" ">> \o SrcD), Del(SrcE),
      Add(SrcY), Ctx(SrcF)>>

\* s.c has two lines; the hunk expects four other ones
HunkShortFile ==
    <<FileA(PathS), FileB(PathS), At(1, 4, 1, 4, <<>>), Ctx(SrcG), Del(SrcH), Add(SrcX),
      Ctx(SrcI), Ctx(SrcC)>>

\* n.c is a new file
HunkNewFile == <<DevNull, FileB(PathN), At(0, 0, 1, 2, <<>>), Add(SrcX), Add(SrcY)>>

Sentinel == <<L(NeedNotPorted)>>

\* the upstream commits: _get_patch(data.new_patch)
NewPatches ==
    LET GitShow(units) ==
            <<MsgLine, L(<<>>)>> \o
            (IF Len(units) >= 1 THEN <<DiffLine, IndexLine>> \o units[1] ELSE <<>>) \o
            (IF Len(units) >= 2 THEN <<DiffLine, IndexLine>> \o units[2] ELSE <<>>)
        \* m.c is d/m.c in the target release, and rename detection says so
        HunkRenamed ==
            <<FileA(PathM), FileB(PathM), At(1, 2, 1, 3, <<>>), Ctx(SrcG), Add(SrcX), Ctx(SrcH)>>
    IN
    << GitShow(<<HunkDirect, HunkRenamed>>),
       GitShow(<<HunkStale, HunkDirect>>),
       <<MsgLine, L(<<>>), DiffLine, ModeLine, IndexLine>> \o HunkNewFile
          \o <<DiffLine, IndexLine>> \o HunkStale >>

\* what the agent may pass to validate while a hunk is open
HunkInputs ==
    LET \* g.c again, with text that fits no file
        HunkNowhere ==
            <<FileA(PathG), FileB(PathG), At(1, 2, 1, 3, <<>>), Ctx(SrcX), Add(SrcY), Ctx(SrcY)>>
        \* g.c is unknown and so is its trailer: the most similar file names are tried;
        \* the text fits s.c
        HunkSimilar ==
            <<FileA(PathG), FileB(PathG), At(1, 2, 1, 3, <<>>), Ctx(SrcF), Add(SrcX), Ctx(SrcA)>>
        \* k.c is unknown; the trailer names fn, which ctags knows in d/m.c
        HunkSymbol ==
            LET PathK == <<"k", ".", "c">>
            IN
            <<FileA(PathK), FileB(PathK), At(2, 2, 2, 3, SymFn), Ctx(SrcH), Add(SrcY), Ctx(SrcI)>>
        \* a hunk header the header pattern does not match
        HunkCorrupt ==
            LET AtBad == [k |-> "atbad", p |-> <<>>, h |-> <<>>, sym |-> <<>>, t |-> <<>>]
            IN
            <<FileA(PathF), FileB(PathF), AtBad, Ctx(SrcB), Del(SrcC), Add(SrcX), Ctx(SrcD)>>
    IN
    {Sentinel, HunkFixed, HunkStale, HunkCorrupt, HunkShortFile, HunkNewFile, HunkSymbol,
     HunkSimilar, HunkNowhere}

\* what the agent passes to validate while a hunk is open, in a run that goes on
\* to the whole-patch phase
RoundInputs == {Sentinel, HunkFixed, HunkStale}

\* "\n".join(texts) for texts that end with a newline: an empty line between them
RECURSIVE JoinTexts(_)
JoinTexts(texts) ==
    IF texts = <<>> THEN <<>>
    ELSE IF Len(texts) = 1 THEN texts[1]
    ELSE texts[1] \o <<L(<<>>)>> \o JoinTexts(Tail(texts))

\* what the agent may pass to validate in the whole-patch phase
PatchInputs ==
    { JoinTexts(<<HunkDirect, HunkFixed>>),
      JoinTexts(<<HunkDirect, HunkStale>>),
      JoinTexts(<<HunkNewFile, HunkDirect>>),
      JoinTexts(<<HunkDirect, HunkShortFile>>) }

(***************************************************************************)
(* Texts for split_patch, each built from a description: a commit message  *)
(* or none, a first file block on f.c, possibly a second block, possibly a *)
(* file marker as the last line.  The style says what comes before the     *)
(* file markers: nothing (a plain unified diff), git's "diff --git" and    *)
(* "index" lines, or those with a mode line between them.                  *)
(***************************************************************************)

\* the first n hunks of a block, as a sequence of hunks
BlockHunks(n) ==
    LET SplitHunkB == <<At(5, 1, 5, 2, <<>>), Ctx(SrcE), Add(SrcY)>>
        SplitHunkA == <<At(1, 2, 1, 2, <<>>), Ctx(SrcA), Del(SrcB), Add(SrcX)>>
    IN  SubSeq(<<SplitHunkA, SplitHunkB>>, 1, n)

RECURSIVE Flatten(_)
Flatten(seqs) == IF seqs = <<>> THEN <<>> ELSE Head(seqs) \o Flatten(Tail(seqs))

\* the two file header lines of a block
BlockHeader(kind) ==
    LET PathMd == <<"x", ".", "m", "d">>
    IN
    CASE kind = "first" -> <<FileA(PathF), FileB(PathF)>>
      [] kind = "file" -> <<FileA(PathS), FileB(PathS)>>
      [] kind = "deny" -> <<FileA(PathMd), FileB(PathMd)>>
      [] OTHER -> <<DevNull, FileB(PathN)>>

SplitInputs ==
    [msg : {"none", "blank", "tight"}, style : {"plain", "git", "gitmode"},
     n1 : {1, 2}, second : {"none", "file", "new", "deny"}, n2 : {1, 2},
     tail : {"none", "a", "null"}]

\* the blocks of a described text: <<kind, number of hunks>>
BlocksOf(in) ==
    <<<<"first", in.n1>>>> \o (IF in.second = "none" THEN <<>> ELSE <<<<in.second, in.n2>>>>)

SplitText(in) ==
    LET MessageLines(msg) ==
            CASE msg = "none" -> <<>>
              [] msg = "blank" -> <<MsgLine, L(<<>>)>>
              [] OTHER -> <<MsgLine, L(<<"c", "v", "e">>)>>
        \* the lines git show prints before the file markers of a block
        ExtLines(style, kind) ==
            CASE style = "plain" -> <<>>
              [] style = "git" /\ kind # "new" -> <<DiffLine, IndexLine>>
              [] OTHER -> <<DiffLine, ModeLine, IndexLine>>
    IN
    MessageLines(in.msg)
      \o Flatten([n \in 1..Len(BlocksOf(in)) |->
                    ExtLines(in.style, BlocksOf(in)[n][1])
                      \o BlockHeader(BlocksOf(in)[n][1])
                      \o Flatten(BlockHunks(BlocksOf(in)[n][2]))])
      \o (CASE in.tail = "a" -> <<FileA(PathG)>>
            [] in.tail = "null" -> <<DevNull>>
            [] OTHER -> <<>>)

(***************************************************************************)
(* Files and windows for find_most_similar_block: every file of up to      *)
(* MaxAlignLen lines over three lines of text, and two files of eight      *)
(* lines whose only lines of three or more characters are the first and    *)
(* the last.                                                               *)
(***************************************************************************)
MaxAlignLen == 3

SrcBrace == <<"}">>

\* a file and the block of lines to find in it
AlignInputs ==
    LET AlignFiles ==
            LET FileDeepOnce == <<SrcB, SrcBrace, SrcBrace, SrcBrace, SrcBrace, SrcBrace, SrcBrace, SrcA>>
                FileDeep == <<SrcA, SrcBrace, SrcBrace, SrcBrace, SrcBrace, SrcBrace, SrcBrace, SrcA>>
                AlignLines == {SrcA, SrcB, SrcBrace}
                FileSwapped == <<SrcX, SrcB, SrcA, SrcBrace, SrcBrace, SrcBrace, SrcBrace, SrcBrace>>
                Short == UNION {[1..n -> AlignLines] : n \in 1..MaxAlignLen}
            IN  [short |-> Short, deep |-> {FileDeep, FileDeepOnce}, swapped |-> FileSwapped]
    IN
    \* every block of lines against every short file that is no shorter
    {in \in [main : AlignFiles.short, pattern : AlignFiles.short] : Len(in.pattern) <= Len(in.main)}
    \* every window of a long file against that file
    \cup UNION {{[main |-> f, pattern |-> PySlice(f, i, i + n)] : i \in 0..(Len(f) - n)} :
                  <<f, n>> \in {fn \in AlignFiles.deep \X (1..8) : fn[2] <= Len(fn[1])}}
    \* two lines of a long file in the other order
    \cup {[main |-> AlignFiles.swapped, pattern |-> <<SrcA, SrcB>>]}

(***************************************************************************)
(* Hunks and files for revise_patch.  A hunk is cut out of a base text of  *)
(* seven lines around its line 4, with 1 or 3 lines of context on each     *)
(* side; it replaces line 4, deletes it or adds a line after it.  One line *)
(* of the hunk may be damaged, the header may carry wrong counts, and the  *)
(* file in the directory is the base text, the base text moved down by two *)
(* lines, the base text with line 3 indented, or its first four lines.     *)
(***************************************************************************)
ReviseBase(content) ==
    IF content = "plain" THEN <<SrcA, SrcB, SrcC, SrcD, SrcE, SrcF, SrcG>>
    ELSE <<SrcA, SrcD, SrcC, SrcD, SrcE, SrcF, SrcG>>

ReviseInputs ==
    [content : {"plain", "dup"}, nctx : {1, 3}, change : {"replace", "delete", "add"},
     damage : {"none", "indent", "stale", "noprefix", "trailing", "emptyend"},
     at : {"ctx", "del"}, counts : {"right", "wrong", "drift"}, file : {"same", "shift2", "indent", "short"}]

ReviseFile(in) ==
    LET base == ReviseBase(in.content)
    IN  CASE in.file = "same" -> base
          [] in.file = "shift2" -> <<SrcX, SrcY>> \o base
          [] in.file = "indent" -> [base EXCEPT ![3] = <<"\t">> \o base[3]]
          [] OTHER -> SubSeq(base, 1, 4)

\* the number of the base line that is damaged
DamagedLine(in) == IF in.at = "del" THEN 4 ELSE IF in.nctx = 3 THEN 2 ELSE 3

\* the body lines that stand for base line n
ReviseBodyOf(in, n) ==
    LET \* a body line as the damaged patch carries it
        Damaged(l, damage) ==
            CASE damage = "indent" -> L(<<l.t[1], "\t">> \o Tail(l.t))
              [] damage = "stale" -> L(<<l.t[1], "q">> \o Tail(Tail(l.t)))
              [] damage = "noprefix" -> L(Tail(l.t))
              [] damage = "trailing" -> L(l.t \o <<" ">>)
              [] OTHER -> l
        base == ReviseBase(in.content)
        l == IF n = 4 /\ in.change \in {"replace", "delete"} THEN Del(base[n]) ELSE Ctx(base[n])
    IN  <<IF n = DamagedLine(in) THEN Damaged(l, in.damage) ELSE l>>
          \o (IF n = 4 /\ in.change \in {"replace", "add"} THEN <<Add(SrcX)>> ELSE <<>>)

ReviseBody(in) == Flatten([k \in 1..(2 * in.nctx + 1) |-> ReviseBodyOf(in, 3 - in.nctx + k)])

\* the hunk from its "@@" line on; its header names the place in the base text
ReviseHunkText(in) ==
    LET body == ReviseBody(in)
        lo == 4 - in.nctx
    IN  <<CASE in.counts = "right" -> At(lo, CountNot(body, "+"), lo, CountNot(body, "-"), <<>>)
            [] in.counts = "drift" -> At(lo, CountNot(body, "+"), lo + 2, CountNot(body, "-"), <<>>)
            [] OTHER -> At(lo, 9, lo, 9, <<>>)>>
          \o body \o (IF in.damage = "emptyend" THEN <<L(<<>>)>> ELSE <<>>)

RevisePatchText(in) == <<FileA(PathF), FileB(PathF)>> \o ReviseHunkText(in)

(***************************************************************************)
(* State: the fields of the Project object, the project directory, and     *)
(* where do_backport stands.                                               *)
(***************************************************************************)
VARIABLES
    succeeded_patches,            \* Project.succeeded_patches
    context_mismatch_times,       \* Project.context_mismatch_times
    round_succeeded,              \* Project.round_succeeded
    all_hunks_applied_succeeded,  \* Project.all_hunks_applied_succeeded
    compile_succeeded,            \* Project.compile_succeeded
    testcase_succeeded,           \* Project.testcase_succeeded
    poc_succeeded,                \* Project.poc_succeeded
    tree,                         \* the files of the project directory (data.project_dir)
    scripts,                      \* which of build.sh, test.sh, poc.sh are in it
    new_patch,                    \* the job: which upstream commit is backported
    pc,                           \* do_backport: "hunks", "agent_hunk", "agent_patch",
                                  \* or how it ended: "done", "failed", "exited", "crashed"
    idx,                          \* do_backport: the index of the hunk of the loop
    calls,                        \* the validate calls of the agent run in progress
    last                          \* the last call into Project: its kind, its patch
                                  \* argument, what it did (ev) and what it returned

vars ==
    <<succeeded_patches, context_mismatch_times, round_succeeded,
      all_hunks_applied_succeeded, compile_succeeded, testcase_succeeded, poc_succeeded,
      tree, scripts, new_patch, pc, idx, calls, last>>

\* the validate calls followed per agent run of the per-hunk phase (max_iterations)
MaxHunkCalls == 3

\* the validate calls followed per agent run of the whole-patch phase
MaxCalls == 2

\* the session as the methods take it, with an empty log
Session ==
    [succeeded_patches |-> succeeded_patches,
     context_mismatch_times |-> context_mismatch_times,
     round_succeeded |-> round_succeeded,
     all_hunks_applied_succeeded |-> all_hunks_applied_succeeded,
     compile_succeeded |-> compile_succeeded,
     testcase_succeeded |-> testcase_succeeded,
     poc_succeeded |-> poc_succeeded,
     tree |-> tree, scripts |-> scripts, ev |-> <<>>, exited |-> FALSE]

\* the fields of the session are stored, and the call is remembered
Store(r, kind, patch) ==
    /\ succeeded_patches' = r.s.succeeded_patches
    /\ context_mismatch_times' = r.s.context_mismatch_times
    /\ round_succeeded' = r.s.round_succeeded
    /\ all_hunks_applied_succeeded' = r.s.all_hunks_applied_succeeded
    /\ compile_succeeded' = r.s.compile_succeeded
    /\ testcase_succeeded' = r.s.testcase_succeeded
    /\ poc_succeeded' = r.s.poc_succeeded
    /\ tree' = r.s.tree
    /\ scripts' = r.s.scripts
    /\ last' = [kind |-> kind, patch |-> patch, ev |-> r.s.ev, raised |-> r.raised,
                ret |-> IF r.raised THEN <<>> ELSE r.ret,
                mismatches |-> context_mismatch_times]

\* the hunks of the upstream commit: split_patch(patch, True) of do_backport
pps == split_patch(NewPatches[new_patch], TRUE).units

Init ==
    /\ succeeded_patches = <<>>
    /\ context_mismatch_times = 0
    /\ round_succeeded = FALSE
    /\ all_hunks_applied_succeeded = FALSE
    /\ compile_succeeded = FALSE
    /\ testcase_succeeded = FALSE
    /\ poc_succeeded = FALSE
    /\ tree = RefTree
    /\ scripts = {}
    /\ new_patch \in 1..Len(NewPatches)
    /\ pc = "hunks"
    /\ idx = 0
    /\ calls = 0
    /\ last = [kind |-> "none", patch |-> <<>>, ev |-> <<>>, raised |-> FALSE,
               ret |-> <<>>, mismatches |-> 0]

\* do_backport lines 55-67: the next hunk of the commit is tried as it is
ApplyNextHunk ==
    /\ pc = "hunks"
    /\ idx < Len(pps)
    /\ \E r \in {apply_hunk([Session EXCEPT !.round_succeeded = FALSE,
                                              !.context_mismatch_times = 0],
                              pps[idx + 1], FALSE)} :
           /\ Store(r, "first", pps[idx + 1])
           /\ pc' = IF r.raised THEN "crashed"
                    ELSE IF r.s.round_succeeded THEN "hunks" ELSE "agent_hunk"
           /\ idx' = IF ~r.raised /\ r.s.round_succeeded THEN idx + 1 ELSE idx
    /\ calls' = 0
    /\ UNCHANGED new_patch

\* the agent of lines 68-77 calls the validate tool on a text of its choice
AgentValidateHunk(inputs, max_calls) ==
    /\ pc = "agent_hunk"
    /\ calls < max_calls
    /\ \E patch \in inputs :
         \E r \in validate(Session, patch) :
             /\ Store(r, "hunk", patch)
             /\ pc' = IF r.raised THEN "crashed" ELSE pc
    /\ calls' = calls + 1
    /\ UNCHANGED <<new_patch, idx>>

\* agent_executor.invoke returns, lines 78-83
AgentReturnsHunk ==
    /\ pc = "agent_hunk"
    /\ pc' = IF round_succeeded THEN "hunks" ELSE "failed"
    /\ idx' = IF round_succeeded THEN idx + 1 ELSE idx
    /\ UNCHANGED <<succeeded_patches, context_mismatch_times, round_succeeded,
                   all_hunks_applied_succeeded, compile_succeeded, testcase_succeeded,
                   poc_succeeded, tree, scripts, new_patch, calls, last>>

\* do_backport lines 85-102: every hunk had its round; the directory is cleaned,
\* the scripts of the dataset directory are copied in, the joined patch is validated
AllHunksApplied ==
    LET \* the contents data.patch_dataset_dir may have
        ScriptSets == SUBSET {"build.sh", "test.sh", "poc.sh"}
    IN
    /\ pc = "hunks"
    /\ idx = Len(pps)
    /\ \E patch_dataset \in ScriptSets :
         LET complete_patch == JoinTexts(succeeded_patches)
             s0 == [Session EXCEPT !.all_hunks_applied_succeeded = TRUE,
                                   !.tree = GitClean(@, RefTree),
                                   !.scripts = patch_dataset,
                                   !.context_mismatch_times = 0]
         IN  \E r \in validate(s0, complete_patch) :
               /\ Store(r, "patch", complete_patch)
               /\ pc' = IF r.raised THEN "crashed"
                        ELSE IF r.s.exited THEN "exited"
                        ELSE IF r.s.poc_succeeded THEN "done" ELSE "agent_patch"
    /\ calls' = 0
    /\ UNCHANGED <<new_patch, idx>>

\* the agent of lines 104-128 calls the validate tool on a revised complete patch
AgentValidatePatch ==
    /\ pc = "agent_patch"
    /\ calls < MaxCalls
    /\ \E patch \in PatchInputs :
         \E r \in validate(Session, patch) :
             /\ Store(r, "patch", patch)
             /\ pc' = IF r.raised THEN "crashed"
                      ELSE IF r.s.exited THEN "exited" ELSE pc
    /\ calls' = calls + 1
    /\ UNCHANGED <<new_patch, idx>>

\* agent_executor.invoke returns, lines 129-138
AgentReturnsPatch ==
    /\ pc = "agent_patch"
    /\ pc' = "done"
    /\ UNCHANGED <<succeeded_patches, context_mismatch_times, round_succeeded,
                   all_hunks_applied_succeeded, compile_succeeded, testcase_succeeded,
                   poc_succeeded, tree, scripts, new_patch, idx, calls, last>>

(***************************************************************************)
(* The per-hunk phase of do_backport, with every text of HunkInputs open   *)
(* to the agent.                                                           *)
(***************************************************************************)
NextHunk ==
    \/ ApplyNextHunk
    \/ AgentValidateHunk(HunkInputs, MaxHunkCalls)
    \/ AgentReturnsHunk

SpecHunk == Init /\ [][NextHunk]_vars

(***************************************************************************)
(* do_backport as a whole; the agent of the per-hunk phase answers with    *)
(* one of RoundInputs.                                                     *)
(***************************************************************************)
Next ==
    \/ ApplyNextHunk
    \/ AgentValidateHunk(RoundInputs, MaxCalls)
    \/ AgentReturnsHunk
    \/ AllHunksApplied
    \/ AgentValidatePatch
    \/ AgentReturnsPatch

Spec == Init /\ [][Next]_vars

(***************************************************************************)
(* split_patch on its own: the arguments are drawn at the start, one call  *)
(* applies the function to them.                                           *)
(***************************************************************************)
InitSplit ==
    /\ succeeded_patches = <<>>
    /\ context_mismatch_times = 0
    /\ round_succeeded = FALSE
    /\ all_hunks_applied_succeeded = FALSE
    /\ compile_succeeded = FALSE
    /\ testcase_succeeded = FALSE
    /\ poc_succeeded = FALSE
    /\ tree = RefTree
    /\ scripts = {}
    /\ new_patch = 1
    /\ pc = "split"
    /\ idx = 0
    /\ calls = 0
    /\ \E in \in SplitInputs, flag_commit \in BOOLEAN :
         last = [kind |-> "split_args", in |-> in, patch |-> SplitText(in),
                 flag_commit |-> flag_commit]

\* list(split_patch(patch, flag_commit)): units holds what the generator yielded,
\* raised whether it ended in its except clause
SplitCall ==
    /\ pc = "split"
    /\ \E r \in {split_patch(last.patch, last.flag_commit)} :
         last' = [kind |-> "split", in |-> last.in, patch |-> last.patch,
                  flag_commit |-> last.flag_commit, units |-> r.units, raised |-> r.raised]
    /\ pc' = "split_done"
    /\ UNCHANGED <<succeeded_patches, context_mismatch_times, round_succeeded,
                   all_hunks_applied_succeeded, compile_succeeded, testcase_succeeded,
                   poc_succeeded, tree, scripts, new_patch, idx, calls>>

SpecSplit == InitSplit /\ [][SplitCall]_vars

(***************************************************************************)
(* find_most_similar_block on its own, called with a copy of a window of   *)
(* the file as the pattern and dline_flag off.                             *)
(***************************************************************************)
InitAlign ==
    /\ succeeded_patches = <<>>
    /\ context_mismatch_times = 0
    /\ round_succeeded = FALSE
    /\ all_hunks_applied_succeeded = FALSE
    /\ compile_succeeded = FALSE
    /\ testcase_succeeded = FALSE
    /\ poc_succeeded = FALSE
    /\ tree = RefTree
    /\ scripts = {}
    /\ new_patch = 1
    /\ pc = "align"
    /\ idx = 0
    /\ calls = 0
    /\ \E in \in AlignInputs :
         last = [kind |-> "align_args", main |-> in.main, pattern |-> in.pattern,
                 p_len |-> Len(in.pattern)]

AlignCall ==
    /\ pc = "align"
    /\ \E r \in {find_most_similar_block(last.pattern, last.main, last.p_len, FALSE)} :
         last' = [kind |-> "align", main |-> last.main, pattern |-> last.pattern,
                  p_len |-> last.p_len,
                  raised |-> r.raised, start |-> r.start, dist |-> r.dist]
    /\ pc' = "align_done"
    /\ UNCHANGED <<succeeded_patches, context_mismatch_times, round_succeeded,
                   all_hunks_applied_succeeded, compile_succeeded, testcase_succeeded,
                   poc_succeeded, tree, scripts, new_patch, idx, calls>>

SpecAlign == InitAlign /\ [][AlignCall]_vars

(***************************************************************************)
(* revise_patch on its own: a patch of one hunk on f.c, the directory      *)
(* holding f.c only, in either mode.                                       *)
(***************************************************************************)
InitRevise ==
    /\ succeeded_patches = <<>>
    /\ context_mismatch_times = 0
    /\ round_succeeded = FALSE
    /\ all_hunks_applied_succeeded = FALSE
    /\ compile_succeeded = FALSE
    /\ testcase_succeeded = FALSE
    /\ poc_succeeded = FALSE
    /\ scripts = {}
    /\ new_patch = 1
    /\ pc = "revise"
    /\ idx = 0
    /\ calls = 0
    /\ \E in \in ReviseInputs, revise_context \in BOOLEAN :
         /\ tree = [q \in {PathF} |-> ReviseFile(in)]
         /\ last = [kind |-> "revise_args", in |-> in, patch |-> RevisePatchText(in),
                    revise_context |-> revise_context]

\* revise_patch(patch, project_path, revise_context); hunk is what its call of
\* revise_hunk returned or that it raised, blk the place revise_hunk aligned to
ReviseCall ==
    /\ pc = "revise"
    /\ \E r \in {revise_patch(last.patch, tree, last.revise_context)} :
       \E h \in {revise_hunk(SubSeq(last.patch, 3, Len(last.patch)), tree[PathF],
                             last.revise_context)} :
         last' = [kind |-> "revise", in |-> last.in, patch |-> last.patch,
                  revise_context |-> last.revise_context,
                  text |-> r.text, fixed |-> r.fixed, hunk |-> h]
    /\ pc' = "revise_done"
    /\ UNCHANGED <<succeeded_patches, context_mismatch_times, round_succeeded,
                   all_hunks_applied_succeeded, compile_succeeded, testcase_succeeded,
                   poc_succeeded, tree, scripts, new_patch, idx, calls>>

SpecRevise == InitRevise /\ [][ReviseCall]_vars

(***************************************************************************)
(* revise_patch on a patch of two file blocks, one on f.c and one on s.c,  *)
(* in either order.  The block on s.c is repaired without an exception, or *)
(* asks for more lines than s.c has, which raises IndexError at line 188.  *)
(***************************************************************************)
InitBlocks ==
    LET OtherBlock(kind) ==
            <<FileA(PathS), FileB(PathS), At(1, 9, 1, 9, <<>>), Ctx(SrcF)>>
              \o (IF kind = "raises" THEN <<Ctx(SrcA), Ctx(SrcB), Del(SrcC)>>
                  ELSE <<Add(SrcX), Ctx(SrcA)>>)
    IN  /\ succeeded_patches = <<>>
        /\ context_mismatch_times = 0
        /\ round_succeeded = FALSE
        /\ all_hunks_applied_succeeded = FALSE
        /\ compile_succeeded = FALSE
        /\ testcase_succeeded = FALSE
        /\ poc_succeeded = FALSE
        /\ scripts = {}
        /\ new_patch = 1
        /\ pc = "blocks"
        /\ idx = 0
        /\ calls = 0
        /\ \E in \in {i \in ReviseInputs : i.content = "plain" /\ i.nctx = 1},
              kind \in {"repaired", "raises"}, f_first \in BOOLEAN, revise_context \in BOOLEAN :
             /\ tree = [q \in {PathF, PathS} |->
                          IF q = PathF THEN ReviseFile(in) ELSE <<SrcF, SrcA>>]
             /\ last = [kind |-> "blocks_args", revise_context |-> revise_context,
                        blocks |-> IF f_first THEN <<RevisePatchText(in), OtherBlock(kind)>>
                                   ELSE <<OtherBlock(kind), RevisePatchText(in)>>]

\* revise_patch(patch, project_path, revise_context) on the two blocks joined
BlocksCall ==
    /\ pc = "blocks"
    /\ \E r \in {revise_patch(last.blocks[1] \o last.blocks[2], tree, last.revise_context)} :
         last' = [kind |-> "blocks", revise_context |-> last.revise_context,
                  blocks |-> last.blocks, text |-> r.text, fixed |-> r.fixed]
    /\ pc' = "blocks_done"
    /\ UNCHANGED <<succeeded_patches, context_mismatch_times, round_succeeded,
                   all_hunks_applied_succeeded, compile_succeeded, testcase_succeeded,
                   poc_succeeded, tree, scripts, new_patch, idx, calls>>

SpecBlocks == InitBlocks /\ [][BlocksCall]_vars

(***************************************************************************)
(* Properties.  They read the last call into Project from the variable     *)
(* last: what the call was given (patch, mismatches: the counter at the    *)
(* time of the call), what it did (ev) and what it returned (ret, raised). *)
(***************************************************************************)

\* the git apply attempts of a call, in the order they were made
Applies(ev) == SelectSeq(ev, LAMBDA e : e.e = "apply")

\* the call entered the stage method
Entered(ev, stage) == \E n \in 1..Len(ev) : ev[n].e = "stage" /\ ev[n].stage = stage

\* the call started the script
Spawned(ev, script) == \E n \in 1..Len(ev) : ev[n].e = "spawn" /\ ev[n].script = script

\* the call started the script, which ended the way out says
SpawnOut(ev, script, out) ==
    \E n \in 1..Len(ev) : ev[n].e = "spawn" /\ ev[n].script = script /\ ev[n].out = out

\* the class of the returned text: the message it starts with
Outcome(ret) == IF ret = <<>> THEN "NONE" ELSE ret[1].lit

\* git reset --hard would change nothing: every file of the ref has its content
IsReset(t) == t = GitResetHard(t, RefTree)

\* the path of the "--- a/" line of a text, <<>> if it has none
PathOf(text) == IF FirstA(text) = 0 THEN <<>> ELSE text[FirstA(text)].p

\* C1: in the whole-patch phase the stages run in gated order over any sequence
\* of validate calls: build.sh is started only in a call in which every hunk of
\* the supplied patch applied, _run_testcase is entered only with the compiled
\* flag true, _run_poc only with the compiled and tested flags true, and no stage
\* is entered with its own success flag already set.
C1_GatedStages ==
    last.kind = "patch" =>
      \A n \in 1..Len(last.ev) :
        /\ (last.ev[n].e = "stage" /\ last.ev[n].stage = "compile")
              => ~last.ev[n].compiled
        /\ (last.ev[n].e = "stage" /\ last.ev[n].stage = "testcase")
              => (last.ev[n].compiled /\ ~last.ev[n].tested)
        /\ (last.ev[n].e = "stage" /\ last.ev[n].stage = "poc")
              => (last.ev[n].compiled /\ last.ev[n].tested /\ ~last.ev[n].validated)
        /\ (last.ev[n].e = "spawn" /\ last.ev[n].script = "build.sh")
              => /\ \A m \in 1..(n - 1) :
                      last.ev[m].e = "apply" => last.ev[m].res = "ok"
                 /\ Cardinality({m \in 1..(n - 1) : last.ev[m].e = "apply"})
                      = Len(split_patch(last.patch, FALSE).units)

\* a later call of the agent that skipped the compile stage, its flag being set,
\* and went on to start poc.sh
C1_Witness ==
    /\ last.kind = "patch"
    /\ calls >= 1
    /\ ~Entered(last.ev, "compile")
    /\ Spawned(last.ev, "poc.sh")

\* C2: when the testcase stage ends in a timeout or in a non-zero exit, the
\* compiled flag is false afterwards (so that the next validate call applies and
\* compiles the patch it is given again).
C2_TestFailureResetsCompiled ==
    (/\ last.kind = "patch"
     /\ \/ SpawnOut(last.ev, "test.sh", "timeout")
        \/ SpawnOut(last.ev, "test.sh", "fail"))
    => ~compile_succeeded

\* C3: when poc.sh runs to completion, the error signature in its output resets
\* the compiled and tested flags and leaves poc_succeeded false; its absence sets
\* poc_succeeded and makes the succeeded-patch list the one complete patch that
\* this validate call was given.
C3_PocOutcome ==
    last.kind = "patch" =>
      /\ SpawnOut(last.ev, "poc.sh", "present")
            => (~compile_succeeded /\ ~testcase_succeeded /\ ~poc_succeeded)
      /\ SpawnOut(last.ev, "poc.sh", "absent")
            => (poc_succeeded /\ succeeded_patches = <<last.patch>>)

\* a call of the agent, on a patch of its own, whose poc.sh run shows no signature
C3_Witness ==
    /\ last.kind = "patch"
    /\ calls >= 1
    /\ SpawnOut(last.ev, "poc.sh", "absent")
    /\ poc_succeeded
    /\ succeeded_patches = <<last.patch>>

\* C4: before and after every hunk apply attempt the project directory is the
\* tree of the target ref, with no untracked file: every git apply of a call of
\* the per-hunk phase starts from exactly that tree, and a call that returns
\* leaves exactly that tree.
C4_CleanTreeAroundApply ==
    last.kind \in {"first", "hunk"} =>
      /\ \A n \in 1..Len(last.ev) : last.ev[n].e = "apply" => last.ev[n].fresh
      /\ ~last.raised => tree = RefTree

\* C5: every validate call returns a text: no exception leaves it, whatever the
\* apply attempt failed on, and after a failed apply attempt every file of the
\* ref has its content again.
C5_ValidateReturnsText ==
    last.kind \in {"hunk", "patch"} =>
      /\ ~last.raised
      /\ last.ret # <<>>
      /\ (\E n \in 1..Len(last.ev) : last.ev[n].e = "apply" /\ last.ev[n].res # "ok")
            => IsReset(tree)

\* a step that is one _apply_hunk call made by do_backport or by validate
ApplyCall ==
    \/ pc = "hunks" /\ last'.kind = "first"
    \/ pc = "agent_hunk" /\ calls' = calls + 1 /\ ~InPatch(NeedNotPorted, last'.patch)

\* C6: an _apply_hunk call whose outcome is success, directly or through a
\* relocated path, appends exactly one element to the succeeded-patch list, the
\* repaired text whose git apply succeeded; a call with any failure outcome
\* leaves the list as it was.
C6_ListGrowsOnSuccessOnly ==
    [][(ApplyCall /\ ~last'.raised) =>
         IF Outcome(last'.ret) \in {"APPLIED", "MOVED_TO"}
         THEN /\ Applies(last'.ev) # <<>>
              /\ Applies(last'.ev)[Len(Applies(last'.ev))].res = "ok"
              /\ succeeded_patches' =
                   Append(succeeded_patches,
                          Applies(last'.ev)[Len(Applies(last'.ev))].text)
         ELSE succeeded_patches' = succeeded_patches]_vars

\* C7: when git apply reports a missing file, the candidates come from rename
\* detection, else from the symbol index, else from the five most similar file
\* names; they are tried in that order, the search stops at the first candidate
\* whose apply succeeds, and the text returned then names the missing path and
\* the path the hunk was applied at.
C7_RelocationFirstSuccess ==
    LET \* the paths tried after the first attempt of a call
        TriedPaths(ap) == [n \in 1..(Len(ap) - 1) |-> PathOf(ap[n + 1].text)]
        \* the candidate paths of a missing file, as the claim orders their sources
        ExpectedCandidates(text, missing) ==
            IF RenamedFrom(missing) # <<>> THEN <<RenamedFrom(missing)>>
            ELSE IF Len(text) >= 3 /\ text[3].k = "at" /\ text[3].sym \in DOMAIN SymbolMap
                 THEN [n \in 1..Len(SymbolMap[text[3].sym]) |-> SymbolMap[text[3].sym][n][1]]
            ELSE find_most_similar_files(basename(missing), tree)
    IN
    (/\ last.kind \in {"first", "hunk"}
     /\ ~last.raised
     /\ Applies(last.ev) # <<>>
     /\ Applies(last.ev)[1].res = "nofile")
    => LET ap == Applies(last.ev)
           missing == PathOf(ap[1].text)
           cands == ExpectedCandidates(ap[1].text, missing)
           tried == TriedPaths(ap)
       IN  /\ Len(tried) <= Len(cands)
           /\ tried = SubSeq(cands, 1, Len(tried))
           /\ \A n \in 2..(Len(ap) - 1) : ap[n].res # "ok"
           /\ (Outcome(last.ret) = "MOVED_TO")
                 <=> (Len(ap) >= 2 /\ ap[Len(ap)].res = "ok")
           /\ Outcome(last.ret) = "MOVED_TO"
                 => last.ret[1].ps = <<missing, tried[Len(tried)]>>
           /\ Outcome(last.ret) # "MOVED_TO" => Len(tried) = Len(cands)

\* C8: in the per-hunk phase the mismatch counter is 0 when the round of a hunk
\* starts; a validate call whose outcome is a context mismatch adds exactly one
\* to it, a call with the outcome success, sentinel, missing file resolved or
\* corrupt format leaves it, no call lowers it; and validate asks _apply_hunk
\* for the forced context rewrite exactly when the counter is at least 2 at the
\* time of the call.
C8_MismatchCounter ==
    /\ last.kind = "first" => context_mismatch_times = 0
    /\ (last.kind = "hunk" /\ ~last.raised) =>
         /\ Outcome(last.ret) = "MISMATCH"
               => context_mismatch_times = last.mismatches + 1
         /\ Outcome(last.ret) \in {"APPLIED", "MOVED_TO", "CORRUPT"}
               => context_mismatch_times = last.mismatches
         /\ context_mismatch_times >= last.mismatches
    /\ (last.kind = "hunk" /\ Applies(last.ev) # <<>>) =>
         (Applies(last.ev)[1].force <=> last.mismatches >= 2)

\* a validate call made with the counter at 2, whose forced rewrite applied
C8_Witness ==
    /\ last.kind = "hunk"
    /\ last.mismatches = 2
    /\ Applies(last.ev) # <<>>
    /\ Applies(last.ev)[1].force
    /\ Outcome(last.ret) = "APPLIED"
    /\ context_mismatch_times = 2

\* C9: in the per-hunk phase, validate of a text that contains "need not ported"
\* returns the success text and sets round_succeeded without any checkout,
\* repair or apply, and leaves the succeeded-patch list, the mismatch counter
\* and the project directory as they were, whatever state they are in.
C9_SentinelShortCircuit ==
    [][(pc = "agent_hunk" /\ calls' = calls + 1 /\ InPatch(NeedNotPorted, last'.patch))
         => /\ ~last'.raised
            /\ last'.ret = <<Lit("APPLIED")>>
            /\ last'.ev = <<>>
            /\ round_succeeded'
            /\ succeeded_patches' = succeeded_patches
            /\ context_mismatch_times' = context_mismatch_times
            /\ tree' = tree]_vars

\* the sentinel validated after a mismatch, in a directory that holds a file the
\* ref does not know
C9_Witness ==
    /\ last.kind = "hunk"
    /\ InPatch(NeedNotPorted, last.patch)
    /\ round_succeeded
    /\ context_mismatch_times >= 1
    /\ tree # RefTree

\* C10: in the whole-patch apply stage the hunks of the complete patch are
\* applied in order on a fresh checkout of the target ref; at the first hunk k
\* that fails no later hunk is attempted, build.sh is not started, the compiled
\* flag stays false, the directory is reset, and the text returned names k.
C10_FirstFailingHunkAborts ==
    (last.kind = "patch" /\ Entered(last.ev, "compile")) =>
      LET ap == Applies(last.ev)
      IN  /\ \A n \in 1..Len(ap) : ap[n].idx = n - 1
          /\ ap # <<>> => ap[1].fresh
          /\ \A n \in 1..Len(ap) :
               ap[n].res # "ok" =>
                 /\ n = Len(ap)
                 /\ ~Spawned(last.ev, "build.sh")
                 /\ ~compile_succeeded
                 /\ ~last.raised
                 /\ IsReset(tree)
                 /\ \E m \in 1..Len(last.ret) :
                      last.ret[m].lit = "APPLY_FAILURE" /\ last.ret[m].n = n - 1

\* the log has an event of kind e at a position after n
LaterEvent(ev, n, e) == \E m \in (n + 1)..Len(ev) : ev[m].e = e

\* C11: a timeout of build.sh ends the whole job: the build process is killed,
\* the directory is reset, the succeeded patches are put out as they are, no
\* testcase or PoC stage follows in the call and no step of do_backport follows
\* the call; a timeout of test.sh or poc.sh leaves the job running: the call
\* returns its text and the agent goes on until it ends its run itself.
C11_CompileTimeoutFatal ==
    /\ [](last.kind = "patch" =>
            /\ \A n \in 1..Len(last.ev) :
                 (/\ last.ev[n].e = "spawn"
                  /\ last.ev[n].script = "build.sh"
                  /\ last.ev[n].out = "timeout")
                 => /\ pc = "exited"
                    /\ LaterEvent(last.ev, n, "kill")
                    /\ LaterEvent(last.ev, n, "surface")
                    /\ ~LaterEvent(last.ev, n, "stage")
                    /\ ~LaterEvent(last.ev, n, "spawn")
                    /\ IsReset(tree)
                    /\ ~compile_succeeded
            /\ (\/ SpawnOut(last.ev, "test.sh", "timeout")
                \/ SpawnOut(last.ev, "poc.sh", "timeout"))
                 => (pc \in {"agent_patch", "done"} /\ ~last.raised /\ last.ret # <<>>))
    /\ [][pc # "exited"]_vars

\* the job ended by a build timeout in a call of the agent
C11_Witness ==
    /\ pc = "exited"
    /\ last.kind = "patch"
    /\ calls >= 1
    /\ SpawnOut(last.ev, "build.sh", "timeout")
    /\ succeeded_patches # <<>>

\* C12: when the project directory has no build.sh, a compile stage whose
\* hunks all applied returns the success text and sets compile_succeeded without
\* starting a process: the stage that follows it finds the flag set, and no
\* build.sh is started.
C12_NoBuildScriptSucceeds ==
    (/\ last.kind = "patch"
     /\ "build.sh" \notin scripts
     /\ Entered(last.ev, "compile")
     /\ ~last.raised
     /\ \A n \in 1..Len(last.ev) : last.ev[n].e = "apply" => last.ev[n].res = "ok")
    => /\ Outcome(last.ret) = "COMPILED"
       /\ ~Spawned(last.ev, "build.sh")
       /\ \A n \in 2..Len(last.ev) :
            (last.ev[n].e = "stage" /\ \A m \in 2..(n - 1) : last.ev[m].e # "stage")
            => (last.ev[n].compiled /\ \A m \in 1..(n - 1) : last.ev[m].e # "spawn")
       /\ (\A n \in 2..Len(last.ev) : last.ev[n].e # "stage") => compile_succeeded

\* a call of the agent without build.sh that compiled and went on to run test.sh
C12_Witness ==
    /\ last.kind = "patch"
    /\ calls >= 1
    /\ "build.sh" \notin scripts
    /\ Entered(last.ev, "compile")
    /\ Outcome(last.ret) = "COMPILED"
    /\ Spawned(last.ev, "test.sh")

\* C13: for every well-formed patch of several files and hunks without a
\* denylisted file, split_patch yields one unit per hunk, in the order of the
\* text, and each unit is the two header lines of the hunk's file followed by
\* exactly the header and body lines of that hunk, so the number of hunks and
\* the number of lines of each hunk are those of the text.
C13_OneUnitPerHunk ==
    LET \* the units a text described by in is made of: per block and per hunk, the
        \* block's two file header lines and the hunk's lines
        ExpectedUnits(in) ==
            Flatten([n \in 1..Len(BlocksOf(in)) |->
                       [h \in 1..BlocksOf(in)[n][2] |->
                          BlockHeader(BlocksOf(in)[n][1]) \o BlockHunks(BlocksOf(in)[n][2])[h]]])
        \* a unit from its first file marker on
        UnitBody(unit) ==
            IF \E n \in 1..Len(unit) : IsFileStart(unit[n])
            THEN SubSeq(unit, CHOOSE n \in 1..Len(unit) :
                                IsFileStart(unit[n]) /\ \A m \in 1..(n - 1) : ~IsFileStart(unit[m]),
                        Len(unit))
            ELSE <<>>
        \* a described text is a complete patch of two files without a denylisted one
        WellFormedMultiFile(in) == in.second \in {"file", "new"} /\ in.tail = "none"
    IN
    (last.kind = "split" /\ WellFormedMultiFile(last.in))
    => /\ Len(last.units) = Len(ExpectedUnits(last.in))
       /\ \A n \in 1..Len(last.units) : UnitBody(last.units[n]) = ExpectedUnits(last.in)[n]

\* C14: with flag_commit set, every unit split_patch yields begins with the
\* complete text before the first file marker of the patch, unchanged, and
\* goes on with the unit's own two file header lines and its hunk.
C14_MessagePrepended ==
    LET \* line.startswith("@@")
        IsHunkStart(l) == l.k \in {"at", "atbad"}
        \* the lines of a text before its first file marker
        PrecedingText(patch) ==
            IF \E n \in 1..Len(patch) : IsFileStart(patch[n])
            THEN SubSeq(patch, 1, (CHOOSE n \in 1..Len(patch) :
                                     IsFileStart(patch[n]) /\ \A m \in 1..(n - 1) : ~IsFileStart(patch[m])) - 1)
            ELSE patch
    IN
    (last.kind = "split" /\ last.flag_commit /\ last.in.tail = "none")
    => \A n \in 1..Len(last.units) :
          LET unit == last.units[n]
              pre == PrecedingText(last.patch)
          IN  /\ Len(unit) >= Len(pre) + 3
              /\ SubSeq(unit, 1, Len(pre)) = pre
              /\ IsFileStart(unit[Len(pre) + 1])
              /\ unit[Len(pre) + 2].k = "b"
              /\ IsHunkStart(unit[Len(pre) + 3])

\* C15: a text split_patch cannot parse, such as one whose last line is a file
\* marker after complete file blocks, yields no unit at all; the exception is
\* caught inside split_patch and does not reach the caller.
C15_UnparsableYieldsNothing ==
    (last.kind = "split" /\ (last.raised \/ last.in.tail # "none")) => last.units = <<>>

\* C16: find_most_similar_block, called with dline_flag off on an exact copy
\* of the window main[i : i + p_len] of a file, returns the (1-based) start
\* line of that window and the distance 0, also when the first line of three
\* or more characters is more than 5 lines into the window and when lines of
\* the window occur elsewhere in the file.
C16_ExactCopyAligns ==
    LET \* the window main[i : i + p_len] occurs only at i
        WindowOnce(main, i, p_len) ==
            \A k \in 0..(Len(main) - p_len) :
               PySlice(main, k, k + p_len) = PySlice(main, i, i + p_len) => k = i
    IN
    last.kind = "align"
    => \A i \in 0..(Len(last.main) - last.p_len) :
          (last.pattern = PySlice(last.main, i, i + last.p_len)
             /\ WindowOnce(last.main, i, last.p_len))
          => (~last.raised /\ last.start = i + 1 /\ last.dist = 0)

\* the hunk of the text revise_patch returned, from its "@@" line on
RevisedHunk == SubSeq(last.text, 3, Len(last.text))

\* C17: every hunk a successful revise_patch returns, in either mode and also
\* when no body line was changed, has a header whose old count is the number
\* of context and removed lines of the returned body and whose new count is
\* the number of its context and added lines, whatever counts the header of
\* the input carried.
C17_HeaderRecount ==
    LET CountIn(lines, cs) == Cardinality({n \in 1..Len(lines) : FirstChar(lines[n]) \in cs})
    IN
    (last.kind = "revise" /\ ~last.hunk.raised)
    => /\ RevisedHunk = last.hunk.lines
       /\ RevisedHunk[1].k = "at"
       /\ RevisedHunk[1].h[2] = CountIn(Tail(RevisedHunk), {" ", "-"})
       /\ RevisedHunk[1].h[4] = CountIn(Tail(RevisedHunk), {" ", "+"})

C17_Witness ==
    /\ last.kind = "revise" /\ ~last.hunk.raised /\ ~last.revise_context
    /\ last.in.counts = "wrong"
    /\ Tail(RevisedHunk) = ReviseBody(last.in)
    /\ RevisedHunk[1].h[2] # last.patch[3].h[2]

\* the body of the hunk of the call after the cut of an empty last line
\* (lines 165-166) and the prefix repair (lines 169-174)
InputBody ==
    LET end == IF Raw(last.patch[Len(last.patch)]) = <<>>
               THEN Len(last.patch) - 1 ELSE Len(last.patch)
    IN  [n \in 1..(end - 3) |-> FixPrefix(last.patch[n + 3])]

\* the place revise_hunk aligns the hunk of the call to (lines 181-183)
AlignedAt ==
    Let([contexts \in {extract_context(InputBody)} |->
           find_most_similar_block(contexts, tree[PathF], Len(contexts), FALSE)])

\* C18: a hunk with 3 context lines whose body is byte-identical to the file
\* but stands 2 lines further down than its header says is aligned to the
\* shifted window with distance 0, and the header revise_patch returns
\* carries the corrected start line.
C18_ShiftedStartCorrected ==
    LET \* the hunk has 3 lines of context, its body is the text of the file, and the
        \* file holds that text 2 lines further down than the header says
        ShiftedByTwo ==
            /\ last.in.nctx = 3 /\ last.in.damage = "none" /\ last.in.file = "shift2"
            /\ extract_context(ReviseBody(last.in))
                 = SubSeq(tree[PathF], last.patch[3].h[1] + 2,
                          last.patch[3].h[1] + 1 + Len(extract_context(ReviseBody(last.in))))
    IN
    (last.kind = "revise" /\ ShiftedByTwo)
    => /\ ~last.hunk.raised
       /\ AlignedAt.start = last.patch[3].h[1] + 2
       /\ AlignedAt.dist = 0
       /\ RevisedHunk[1].h[1] = last.patch[3].h[1] + 2
       /\ RevisedHunk[1].h[3] = last.patch[3].h[3] + 2

\* the line of the file that revise_hunk reads for body line n of the input:
\* target_file_lines[lineno - 1 + i], i counting the old-side lines before n
FileLineFor(lineno, n) ==
    PyAt(tree[PathF],
         lineno - 1 + Cardinality({m \in 1..(n - 1) : IsOldSide(InputBody[m])}))

\* C19 as stated: in every hunk revise_patch returns in whitespace-only mode,
\* the context and removed lines are, line by line and ignoring leading and
\* trailing whitespace, the lines of the file in the aligned window.
C19_OldSideIsFileWindow ==
    (last.kind = "revise" /\ ~last.revise_context /\ ~last.hunk.raised)
    => Let([lineno \in {AlignedAt.start} |->
              LET out == extract_context(Tail(RevisedHunk))
              IN  \A k \in 1..Len(out) :
                     /\ PyInRange(tree[PathF], lineno - 1 + (k - 1))
                     /\ Strip(out[k]) = Strip(PyAt(tree[PathF], lineno - 1 + (k - 1)))])

\* C19 amended: in every hunk revise_patch returns in whitespace-only mode, a
\* context or removed line whose text equals the file's line at the aligned
\* offset once whitespace is removed is returned as that file line with its
\* own prefix, and every other context or removed line is returned as given.
C19_WhitespaceOnlyRewrite ==
    (last.kind = "revise" /\ ~last.revise_context /\ ~last.hunk.raised)
    => Let([lineno \in {AlignedAt.start} |->
              /\ Len(RevisedHunk) = Len(InputBody) + 1
              /\ \A n \in 1..Len(InputBody) :
                    IsOldSide(InputBody[n])
                    => IF NoSpace(Rest(InputBody[n])) = NoSpace(FileLineFor(lineno, n))
                       THEN /\ FirstChar(RevisedHunk[n + 1]) = FirstChar(InputBody[n])
                            /\ Rest(RevisedHunk[n + 1]) = FileLineFor(lineno, n)
                       ELSE RevisedHunk[n + 1] = InputBody[n]])

C19_Witness ==
    /\ last.kind = "revise" /\ ~last.revise_context /\ ~last.hunk.raised
    /\ \E n \in 1..Len(InputBody) :
          IsOldSide(InputBody[n]) /\ RevisedHunk[n + 1] # InputBody[n]
    /\ \E n \in 1..Len(InputBody) :
          /\ IsOldSide(InputBody[n]) /\ RevisedHunk[n + 1] = InputBody[n]
          /\ Rest(InputBody[n]) # FileLineFor(AlignedAt.start, n)

\* C20: when revise_hunk with revise_context off changes at least one line of a
\* hunk, revise_hunk with revise_context on returns, for the same hunk and
\* file, each of those lines as the same line: same prefix, same text.
C20_ForceAgreesOnChangedLines ==
    LET \* what revise_hunk returns for the hunk of the call with revise_context off
        WhitespaceOnly == revise_hunk(SubSeq(last.patch, 3, Len(last.patch)), tree[PathF], FALSE)
    IN
    (last.kind = "revise" /\ last.revise_context)
    => Let([ws \in {WhitespaceOnly} |->
              (/\ ~ws.raised
               /\ \E n \in 1..Len(InputBody) : ws.lines[n + 1] # last.patch[n + 3])
              => /\ ~last.hunk.raised
                 /\ \A n \in 1..Len(InputBody) :
                       ws.lines[n + 1] # last.patch[n + 3]
                       => last.hunk.lines[n + 1] = ws.lines[n + 1]])

\* C21: when the repair of one file block of a patch raises, revise_patch
\* returns that block as it was given and the other block in its repaired
\* form, and the flag it returns is the flag of the repaired block.
C21_PerBlockFailure ==
    last.kind = "blocks"
    => Let([rb \in {<<revise_block(last.blocks[1], tree, last.revise_context),
                      revise_block(last.blocks[2], tree, last.revise_context)>>} |->
              /\ (rb[1].raised /\ ~rb[2].raised)
                   => (last.text = last.blocks[1] \o rb[2].lines /\ last.fixed = rb[2].fixed)
              /\ (~rb[1].raised /\ rb[2].raised)
                   => (last.text = rb[1].lines \o last.blocks[2] /\ last.fixed = rb[1].fixed)])

\* C22 as stated: in whitespace-only mode, for a hunk that is right but for
\* trailing whitespace on one context line, revise_patch returns that line
\* with the same text once whitespace is removed, and returns the flag set
\* only if a count of the header was changed.
C22_ModifiedOnlyIfCountsChanged ==
    LET \* where the line that carries the trailing whitespace stands in the hunk
        TrailingAt == DamagedLine(last.in) - 3 + last.in.nctx + 1
    IN
    (last.kind = "revise" /\ ~last.revise_context
       /\ last.in.damage = "trailing" /\ last.in.at = "ctx")
    => /\ FirstChar(RevisedHunk[TrailingAt]) = " "
       /\ NoSpace(Rest(RevisedHunk[TrailingAt])) = NoSpace(Rest(last.patch[TrailingAt + 2]))
       /\ last.fixed => \/ RevisedHunk[1].h[2] # last.patch[3].h[2]
                        \/ RevisedHunk[1].h[4] # last.patch[3].h[4]

\* C22 amended: in whitespace-only mode, for such a hunk, revise_patch returns
\* that line with the same text once whitespace is removed, and returns the
\* flag set exactly when the repair went through and the old start line of
\* the header differs from its new start line, whether or not a count of the
\* header was changed.
C22_ModifiedIffStartsDiffer ==
    LET \* where the line that carries the trailing whitespace stands in the hunk
        TrailingAt == DamagedLine(last.in) - 3 + last.in.nctx + 1
    IN
    (last.kind = "revise" /\ ~last.revise_context
       /\ last.in.damage = "trailing" /\ last.in.at = "ctx")
    => /\ FirstChar(RevisedHunk[TrailingAt]) = " "
       /\ NoSpace(Rest(RevisedHunk[TrailingAt])) = NoSpace(Rest(last.patch[TrailingAt + 2]))
       /\ last.fixed <=> (~last.hunk.raised /\ last.patch[3].h[1] # last.patch[3].h[3])

C22_Witness ==
    LET \* where the line that carries the trailing whitespace stands in the hunk
        TrailingAt == DamagedLine(last.in) - 3 + last.in.nctx + 1
    IN
    /\ last.kind = "revise" /\ ~last.revise_context
    /\ last.in.damage = "trailing" /\ last.in.at = "ctx"
    /\ RevisedHunk[TrailingAt] # last.patch[TrailingAt + 2]
    /\ RevisedHunk[1].h = last.patch[3].h
    /\ last.fixed

\* C26: in whitespace-only mode no body line is lost: the hunk a successful
\* revise_patch returns has as many body lines as the hunk it was given, and
\* every given body line that starts with none of "+", "-" and " ", an empty
\* last line included, stands at its place as a context line with that text.
C26_NoBodyLineDropped ==
    (last.kind = "revise" /\ ~last.revise_context /\ ~last.hunk.raised)
    => /\ Len(RevisedHunk) = Len(last.patch) - 2
       /\ \A n \in 4..Len(last.patch) :
             (Raw(last.patch[n]) = <<>> \/ FirstChar(last.patch[n]) \notin {"+", "-", " "})
             => /\ n - 2 <= Len(RevisedHunk)
                /\ FirstChar(RevisedHunk[n - 2]) = " "
                /\ NoSpace(Rest(RevisedHunk[n - 2])) = NoSpace(Raw(last.patch[n]))

\* C25: with dline_flag off, find_most_similar_block looks at every pattern
\* line of 3 or more characters once trimmed, takes each line of the file
\* within 5 lines of the start of the best window that equals it once
\* trimmed, and returns the best start moved by the offset of smallest
\* magnitude among all those matches (unmoved when there is none).
C25_SmallestOffsetOverAllLines ==
    last.kind = "align"
    => Let([best \in {find_most_similar_block(last.pattern, last.main, last.p_len, TRUE).start} |->
         LET Offsets == {ij[2] - ij[1] : ij \in
                           {ij \in (0..(last.p_len - 1)) \X (-5..5) :
                              /\ Len(Strip(last.pattern[ij[1] + 1])) >= 3
                              /\ PyInRange(last.main, best - 1 + ij[2])
                              /\ Strip(last.pattern[ij[1] + 1])
                                   = Strip(PyAt(last.main, best - 1 + ij[2]))}}
         IN  IF Offsets = {} THEN last.start = best
             ELSE \E o \in Offsets : /\ \A q \in Offsets : Abs(o) <= Abs(q)
                                     /\ last.start = best + o])

\* C30: for a pattern no longer than the file, the start line that
\* find_most_similar_block returns with dline_flag off is the 1-based index
\* of a window of p_len lines that lies inside the file.
C30_WindowInsideFile ==
    (last.kind = "align" /\ last.p_len <= Len(last.main))
    => /\ 1 <= last.start
       /\ last.start + last.p_len - 1 <= Len(last.main)

C24_ForceAfterSecondMismatch ==
    (last.kind = "patch" /\ Entered(last.ev, "compile") /\ Applies(last.ev) # <<>>)
    => (Applies(last.ev)[1].force => last.mismatches >= 2)

\* C27: in every state of a job poc_succeeded implies testcase_succeeded,
\* testcase_succeeded implies compile_succeeded and compile_succeeded implies
\* all_hunks_applied_succeeded; and a validate call made when poc_succeeded is
\* set changes none of the flags and leaves the succeeded-patch list.
C27_FlagChain ==
    /\ [](/\ poc_succeeded => testcase_succeeded
          /\ testcase_succeeded => compile_succeeded
          /\ compile_succeeded => all_hunks_applied_succeeded)
    /\ [][(poc_succeeded /\ pc = "agent_patch" /\ calls' = calls + 1)
            => UNCHANGED <<succeeded_patches, round_succeeded, all_hunks_applied_succeeded,
                           compile_succeeded, testcase_succeeded, poc_succeeded>>]_vars

\* validate was called after poc_succeeded had been set, and returned nothing
C27_Witness ==
    /\ poc_succeeded /\ testcase_succeeded /\ compile_succeeded
    /\ last.kind = "patch"
    /\ calls >= 1
    /\ last.ev = <<>>
    /\ last.ret = <<>>

\* C28: when a validate call sets poc_succeeded, the succeeded-patch list
\* holds the text of that call alone, and the files of the ref stand in the
\* directory as the compile stage leaves them for that text: the build that
\* was tested and the text that is kept belong together, also when an earlier
\* call ended in a timeout of test.sh or poc.sh.
C28_FinalisedIsCompiled ==
    (last.kind = "patch" /\ ~last.raised /\ poc_succeeded /\ Entered(last.ev, "poc"))
    => /\ succeeded_patches = <<last.patch>>
       /\ \E f \in BOOLEAN :
            Let([ap \in {ApplyJoined([Session EXCEPT !.tree = RefTree],
                                     split_patch(last.patch, FALSE).units, 0, f)} |->
                  /\ ~ap.raised /\ ~ap.failed
                  /\ \A q \in DOMAIN RefTree :
                        q \in DOMAIN tree /\ q \in DOMAIN ap.s.tree /\ ap.s.tree[q] = tree[q]])

\* C29: when every hunk of the commit has had its round, at the point where
\* do_backport sets all_hunks_applied_succeeded, the succeeded-patch list
\* holds at most one text per hunk of the commit, however many validate calls
\* the agent made in a round, calls after a success of that round included.
C29_OneTextPerHunk ==
    (pc = "hunks" /\ idx = Len(pps)) => Len(succeeded_patches) <= Len(pps)

====
